---------------------------- MODULE Spec2Model ----------------------------
(***************************************************************************)
(* Verification model of emby-actor-processor: the person identity map     *)
(* (actor_utils.py, tasks.py), the processing logs and cast processors     *)
(* (core_processor_sa.py, core_processor_api.py), the translation cache    *)
(* and the task trigger endpoint (routes/system.py).                       *)
(***************************************************************************)
EXTENDS Integers, Sequences, FiniteSets, TLC

VARIABLES
    pim,        \* person_identity_map: the set of committed rows
    next_id,    \* next AUTOINCREMENT map_id
    last_ret,   \* value returned by the last upsert_person call
    cands,      \* convergence runs: the candidates, in their reference order
    applied,    \* convergence runs: indexes of cands already upserted, in order
    processed_log,          \* item ids with a committed processed_log row
    failed_log,             \* item ids with a committed failed_log row
    processed_items_cache,  \* the processor's in-memory copy of processed_log
    last_attempt,           \* the last single-item processing attempt
    translation_cache,      \* translation_cache table: original_text -> entry
    last_tr,                \* what the last translation call did
    running,        \* the task manager's slot: the running task's key, if any
    pc,             \* where the running task is in its program
    stop,           \* the processor's stop flag (_stop_event)
    progress,       \* the progress last reported to the task status
    observed,       \* the running task has seen the stop flag set
    since_observe,  \* adapter calls and commits made after seeing it
    txn_open,       \* the running task has an open DB transaction
    after_stop,     \* adapter calls and commits since signal_stop (-1: none sent)
    response,       \* the trigger endpoint's last answer
    cast_in,        \* the arguments and circumstances of a cast processing call
    cast_out,       \* what that call did: the list it returned, or that it raised
    call_in,        \* the arguments of a call of a function without side effects
    call_out,       \* the function called and what it returned
    fs,             \* override directory: path -> inode number (0: no such file)
    inodes,         \* inode number -> what the file holds and who wrote it last
    writers,        \* the processing runs that write override files
    last_read,      \* what a reader of the override directory last read
    manual_edit_cache, \* MediaProcessorSA.manual_edit_cache: the item ids it holds
    session,        \* item id -> where the item's manual editing session stands
    last_edit       \* the last editing call and what it returned

identityVars == <<pim, next_id, last_ret, cands, applied>>
logVars == <<processed_log, failed_log, processed_items_cache, last_attempt>>
transVars == <<translation_cache, last_tr>>
taskVars == <<running, pc, stop, progress, observed, since_observe, txn_open,
              after_stop, response>>
castVars == <<cast_in, cast_out>>
pureVars == <<call_in, call_out>>
\* The variables of the parts modelled after the cast processors.
fileVars == <<fs, inodes, writers, last_read>>
editVars == <<manual_edit_cache, session, last_edit>>
extVars == <<pureVars, fileVars, editVars>>

NULL == "NULL"

\* The state of each part of the program before it is used.
IdentityIdle ==
    pim = {} /\ next_id = 1 /\ last_ret = 0 /\ cands = <<>> /\ applied = <<>>

LogsIdle ==
    /\ processed_log = {}
    /\ failed_log = {}
    /\ processed_items_cache = {}
    /\ last_attempt = [processor |-> NULL, item |-> NULL, outcome |-> NULL, returned |-> NULL]

TransIdle ==
    /\ translation_cache = <<>>
    /\ last_tr = [fn |-> NULL, text |-> <<>>, neg_before |-> {}, read |-> {},
                  written |-> {}, ai_calls |-> {}, engine_calls |-> {}, ret |-> <<>>]

TasksIdle ==
    /\ running = <<>> /\ pc = "idle" /\ stop = FALSE /\ progress = 0
    /\ observed = FALSE /\ since_observe = {} /\ txn_open = FALSE
    /\ after_stop = -1
    /\ response = [status |-> 0, seq |-> 0]

CastIdle ==
    /\ cast_in = [seed |-> <<>>, douban |-> <<>>, limit |-> 0,
                  stop |-> [phase |-> "none", k |-> 0], ai |-> FALSE]
    /\ cast_out = [processor |-> NULL, status |-> NULL, cast |-> <<>>]

PureIdle ==
    /\ call_in = <<>>
    /\ call_out = [fn |-> NULL, ret |-> <<>>]

FilesIdle ==
    /\ fs = <<>> /\ inodes = <<>> /\ writers = <<>>
    /\ last_read = [path |-> NULL, state |-> NULL]

EditIdle ==
    /\ manual_edit_cache = {} /\ session = <<>>
    /\ last_edit = [op |-> NULL, item |-> NULL, ret |-> NULL]

ExtIdle == PureIdle /\ FilesIdle /\ EditIdle

\* Nothing has run yet.
InitIdle == IdentityIdle /\ LogsIdle /\ TransIdle /\ TasksIdle /\ CastIdle /\ ExtIdle

\* ------------------------------------------------------------------------
\* Values
\* ------------------------------------------------------------------------
TmdbIds == {"T1", "T2"}
EmbyIds == {"E1"}
ImdbIds == {"I1"}
DoubanIds == {"D1"}
AllIdValues == TmdbIds \cup EmbyIds \cup ImdbIds \cup DoubanIds

\* AUTOINCREMENT is unbounded in the database; runs stop inserting past this.
MaxMapId == 3

id_fields == <<"emby_person_id", "tmdb_person_id", "imdb_id", "douban_celebrity_id">>
IdFieldSet == {id_fields[i] : i \in 1..Len(id_fields)}

\* str(x or '').strip(): the raw inputs of the model carry at most one
\* leading and trailing blank, or are blank altogether.
strip(s) ==
    CASE s = NULL -> ""
      [] s = " " -> ""
      [] s = " T1 " -> "T1"
      [] s = " A " -> "A"
      [] OTHER -> s

\* str(x or '').strip() or None
strip_or_none(s) == IF strip(s) = "" THEN NULL ELSE strip(s)

\* Python truthiness of a stored column value
Truthy(v) == v # NULL /\ v # ""

\* ------------------------------------------------------------------------
\* person_identity_map rows
\* ------------------------------------------------------------------------
\* last_synced_at is "now" inside the sync cooldown window; NULL stands for a
\* stamp that is NULL or older than the window (the enricher selects both).
SyncStamps == {NULL, "now"}

RowById(rows, m) == CHOOSE r \in rows : r.map_id = m
MapIds(rows) == {r.map_id : r \in rows}
MinOf(S) == CHOOSE m \in S : \A n \in S : m <= n

\* upsert_person step 1: normalisation of person_data
data_to_process(person_data) ==
    [primary_name |-> strip(person_data.name),
     emby_person_id |-> strip_or_none(person_data.emby_id),
     tmdb_person_id |-> strip_or_none(person_data.tmdb_id),
     imdb_id |-> strip_or_none(person_data.imdb_id),
     douban_celebrity_id |-> strip_or_none(person_data.douban_id)]

provided_ids(d) == {k \in IdFieldSet : Truthy(d[k])}

\* SELECT * FROM person_identity_map WHERE col1 = ? OR col2 = ? ...
id_based_matches(rows, d) ==
    {r \in rows : \E k \in provided_ids(d) : r[k] = d[k]}

\* The first truthy value of column k among the records with the given
\* map_ids, taken in ascending map_id order (NULL when there is none).
RECURSIVE FirstTruthy(_, _, _)
FirstTruthy(rows, ids, k) ==
    IF ids = {} THEN NULL
    ELSE LET m == MinOf(ids)
         IN IF Truthy(RowById(rows, m)[k]) THEN RowById(rows, m)[k]
            ELSE FirstTruthy(rows, ids \ {m}, k)

MergedValueNoOthers(rows, primary, others, d, k) ==
    IF Truthy(primary[k]) THEN primary[k] ELSE d[k]

MergedValueCandidateFirst(rows, primary, others, d, k) ==
    IF Truthy(d[k]) THEN d[k] ELSE primary[k]

\* Case A, the "fusion" loop: all_sources = [data_to_process] + other_records
MergedValue(rows, primary, others, d, k) ==
    IF Truthy(primary[k]) THEN primary[k]
    ELSE IF Truthy(d[k]) THEN d[k]
    ELSE FirstTruthy(rows, others, k)

ids_to_delete_none(others) == {}

\* Which other_records Case A deletes after updating the primary record.
ids_to_delete(others) == others

CaseA(rows, nid, d) ==
    LET matches == id_based_matches(rows, d)
        pm == MinOf(MapIds(matches))
        primary == RowById(rows, pm)
        others == MapIds(matches) \ {pm}
        merged == [primary EXCEPT
                     !.primary_name = IF d.primary_name # "" THEN d.primary_name ELSE @,
                     !.emby_person_id = MergedValue(rows, primary, others, d, "emby_person_id"),
                     !.tmdb_person_id = MergedValue(rows, primary, others, d, "tmdb_person_id"),
                     !.imdb_id = MergedValue(rows, primary, others, d, "imdb_id"),
                     !.douban_celebrity_id = MergedValue(rows, primary, others, d, "douban_celebrity_id")]
    IN [rows |-> {r \in rows : r.map_id \notin ({pm} \cup ids_to_delete(others))} \cup {merged},
        next_id |-> nid,
        ret |-> pm]

has_any_id_unread(r) == FALSE

\* Case B: the first same-name record that is not skipped by
\* "if provided_ids and has_any_id: continue"
has_any_id(r) == \E k \in IdFieldSet : Truthy(r[k])

MergeTargets(rows, d) ==
    {r \in rows : r.primary_name = d.primary_name
                  /\ ~(provided_ids(d) # {} /\ has_any_id(r))}

CaseB1(rows, nid, d) ==
    LET tm == MinOf(MapIds(MergeTargets(rows, d)))
        target == RowById(rows, tm)
        updated == [k \in DOMAIN target |->
                      IF k \in provided_ids(d) THEN d[k] ELSE target[k]]
    IN [rows |-> (rows \ {target}) \cup {updated},
        next_id |-> nid,
        ret |-> tm]

CaseC(rows, nid, d) ==
    [rows |-> rows \cup {[map_id |-> nid,
                          primary_name |-> d.primary_name,
                          emby_person_id |-> d.emby_person_id,
                          tmdb_person_id |-> d.tmdb_person_id,
                          imdb_id |-> d.imdb_id,
                          douban_celebrity_id |-> d.douban_celebrity_id,
                          last_synced_at |-> "now"]},
     next_id |-> nid + 1,
     ret |-> nid]

upsert_person(rows, nid, person_data) ==
    LET d == data_to_process(person_data)
    IN IF d.primary_name = "" /\ provided_ids(d) = {}
         THEN [rows |-> rows, next_id |-> nid, ret |-> -1]
       ELSE IF id_based_matches(rows, d) # {}
         THEN CaseA(rows, nid, d)
       ELSE IF d.primary_name = ""
         THEN [rows |-> rows, next_id |-> nid, ret |-> -1]
       ELSE IF MergeTargets(rows, d) # {}
         THEN CaseB1(rows, nid, d)
       ELSE CaseC(rows, nid, d)

\* ------------------------------------------------------------------------
\* enrich_all_actor_aliases_task
\* ------------------------------------------------------------------------
Orders(S) == {q \in [1..Cardinality(S) -> S] : \A i, j \in DOMAIN q : q[i] = q[j] => i = j}

NoName(tmdb, imdb, douban) ==
    [name |-> NULL, emby_id |-> NULL, tmdb_id |-> tmdb, imdb_id |-> imdb, douban_id |-> douban]

\* WHERE <col> IS NOT NULL AND imdb_id IS NULL
\*   AND (last_synced_at IS NULL OR last_synced_at < now - cooldown)
Needy(rows, col) ==
    {r \in rows : r[col] # NULL /\ r.imdb_id = NULL /\ r.last_synced_at # "now"}

\* What fetch_tmdb_details_for_actor reports for one actor: an IMDb id that
\* was found, "none" (found, no IMDb id), "not_found" (404) or "failed".
TmdbResponses == ImdbIds \cup {"none", "not_found", "failed"}

RECURSIVE ApplyUpdates(_, _, _, _)
ApplyUpdates(st, order, resp, i) ==
    IF i > Len(order) THEN st
    ELSE LET r == upsert_person(st.rows, st.next_id, NoName(order[i], resp[order[i]], NULL))
         IN ApplyUpdates([rows |-> r.rows, next_id |-> r.next_id], order, resp, i + 1)

\* Rows of one Phase A batch that are written: the upserts of updates_to_commit
\* in completion order, the deletions, then the sync stamps of the whole chunk.
PhaseABatch(rows, nid, resp, order) ==
    LET chunk == {r.tmdb_person_id : r \in Needy(rows, "tmdb_person_id")}
        deletions_to_commit == {t \in chunk : resp[t] = "not_found"}
        upd == ApplyUpdates([rows |-> rows, next_id |-> nid], order, resp, 1)
        kept == {r \in upd.rows : r.tmdb_person_id \notin deletions_to_commit}
        stamped == {IF r.tmdb_person_id \in chunk
                      THEN [r EXCEPT !.last_synced_at = "now"] ELSE r : r \in kept}
    IN IF Len(order) = 0 /\ deletions_to_commit = {}
         THEN [rows |-> rows, next_id |-> nid]
         ELSE [rows |-> stamped, next_id |-> upd.next_id]

\* What celebrity_details yields for one actor: an IMDb id, "none" (details
\* without an IMDb number, or an error payload) or "raised" (an exception).
DoubanResponses == ImdbIds \cup {"none", "raised"}

RECURSIVE PhaseBLoop(_, _, _)
PhaseBLoop(st, todo, resp) ==
    IF todo = {} THEN st
    ELSE LET m == MinOf(MapIds(todo))
             actor == RowById(todo, m)
             r == IF resp[m] \in ImdbIds
                    THEN upsert_person(st.rows, st.next_id,
                                       NoName(NULL, resp[m], actor.douban_celebrity_id))
                    ELSE [rows |-> st.rows, next_id |-> st.next_id]
             synced == {IF x.map_id = m THEN [x EXCEPT !.last_synced_at = "now"] ELSE x
                          : x \in r.rows}
             after == IF resp[m] = "raised" THEN st
                      ELSE [rows |-> synced, next_id |-> r.next_id]
         IN PhaseBLoop(after, todo \ {actor}, resp)

PhaseB(rows, nid, resp) ==
    PhaseBLoop([rows |-> rows, next_id |-> nid], Needy(rows, "douban_celebrity_id"), resp)

\* ------------------------------------------------------------------------
\* task_import_database, person_identity_map in merge mode
\* ------------------------------------------------------------------------
\* The four lookup dictionaries, in the order the loops visit them.
LookupKeys == <<"tmdb_person_id", "emby_person_id", "imdb_id", "douban_celebrity_id">>

\* live_*_map built from the local snapshot: id value -> map_id (0: no key)
LiveMaps(local_rows) ==
    [k \in IdFieldSet |->
       [v \in AllIdValues |->
          IF \E r \in local_rows : r[k] = v
            THEN (CHOOSE r \in local_rows : r[k] = v).map_id ELSE 0]]

matched_map_ids(live, backup_row) ==
    {live[k][backup_row[k]] :
        k \in {f \in IdFieldSet : Truthy(backup_row[f]) /\ live[f][backup_row[f]] # 0}}

\* consolidated_row of a single match: the snapshot row with its empty
\* columns filled from the backup row
Consolidated(local_row, backup_row) ==
    [k \in DOMAIN local_row |->
       IF k \in DOMAIN backup_row /\ Truthy(backup_row[k]) /\ ~Truthy(local_row[k])
         THEN backup_row[k] ELSE local_row[k]]

\* Redirect the ids of the victims' snapshot rows to the survivor.
Redirect(live, local_rows, victim_ids, survivor_id) ==
    [k \in IdFieldSet |->
       [v \in AllIdValues |->
          IF live[k][v] # 0 /\ \E m \in victim_ids : RowById(local_rows, m)[k] = v
            THEN survivor_id ELSE live[k][v]]]

\* Phase A: the merge plan computed in memory, one backup row at a time
RECURSIVE PlanImport(_, _, _, _)
PlanImport(local_rows, table_data, i, plan) ==
    IF i > Len(table_data) THEN plan
    ELSE LET backup_row == table_data[i]
             matched == matched_map_ids(plan.live, backup_row)
             survivor_id == MinOf(matched)
             consolidated_row == Consolidated(RowById(local_rows, survivor_id), backup_row)
         IN PlanImport(local_rows, table_data, i + 1,
              IF matched = {}
                THEN [plan EXCEPT !.inserts = Append(@, backup_row)]
              ELSE IF Cardinality(matched) = 1
                THEN IF consolidated_row # RowById(local_rows, survivor_id)
                       THEN [plan EXCEPT !.simple_updates = Append(@, consolidated_row)]
                       ELSE plan
              ELSE [plan EXCEPT
                      !.complex_merges = Append(@, [survivor_id |-> survivor_id,
                                                    victim_ids |-> matched \ {survivor_id},
                                                    backup_row |-> backup_row]),
                      !.live = Redirect(@, local_rows, matched \ {survivor_id}, survivor_id)])

\* The columns a source row can hand to the survivor of a complex merge.
FillCols == {"primary_name", "last_synced_at"} \cup IdFieldSet

\* One complex merge: refill the survivor as it now is in the table from the
\* victims' snapshot rows and then the backup row, delete the victims.
ComplexMerge(local_rows, rows, mc) ==
    LET survivor_row == RowById(rows, mc.survivor_id)
        FromVictims(k) == FirstTruthy(local_rows, mc.victim_ids, k)
        filled == [k \in DOMAIN survivor_row |->
                     IF k \notin FillCols \/ Truthy(survivor_row[k]) THEN survivor_row[k]
                     ELSE IF Truthy(FromVictims(k)) THEN FromVictims(k)
                     ELSE IF k \in DOMAIN mc.backup_row /\ Truthy(mc.backup_row[k])
                       THEN mc.backup_row[k]
                     ELSE survivor_row[k]]
    IN {r \in rows : r.map_id \notin (mc.victim_ids \cup {mc.survivor_id})} \cup {filled}

\* dict(cursor.fetchone()) raises when the survivor is no longer in the table.
RECURSIVE ComplexMerges(_, _, _, _)
ComplexMerges(local_rows, st, merges, i) ==
    IF i > Len(merges) \/ st.failed THEN st
    ELSE IF merges[i].survivor_id \notin MapIds(st.rows)
      THEN [st EXCEPT !.failed = TRUE]
    ELSE ComplexMerges(local_rows,
                       [st EXCEPT !.rows = ComplexMerge(local_rows, st.rows, merges[i])],
                       merges, i + 1)

\* unique_updates = {row['map_id']: row for row in simple_updates}.values()
LastUpdateFor(simple_updates, m) ==
    simple_updates[CHOOSE i \in DOMAIN simple_updates :
                      /\ simple_updates[i].map_id = m
                      /\ \A j \in DOMAIN simple_updates :
                            simple_updates[j].map_id = m => j <= i]

\* UPDATE ... SET primary_name, tmdb_person_id, imdb_id, douban_celebrity_id
SimpleUpdates(rows, simple_updates) ==
    {IF \E i \in DOMAIN simple_updates : simple_updates[i].map_id = r.map_id
       THEN LET u == LastUpdateFor(simple_updates, r.map_id)
            IN [r EXCEPT !.primary_name = u.primary_name,
                         !.tmdb_person_id = u.tmdb_person_id,
                         !.imdb_id = u.imdb_id,
                         !.douban_celebrity_id = u.douban_celebrity_id]
       ELSE r : r \in rows}

\* INSERT INTO person_identity_map (primary_name, tmdb_person_id, imdb_id,
\* douban_celebrity_id)
Inserts(rows, nid, inserts) ==
    rows \cup {[map_id |-> nid + i - 1,
                primary_name |-> inserts[i].primary_name,
                emby_person_id |-> NULL,
                tmdb_person_id |-> inserts[i].tmdb_person_id,
                imdb_id |-> inserts[i].imdb_id,
                douban_celebrity_id |-> inserts[i].douban_celebrity_id,
                last_synced_at |-> NULL] : i \in DOMAIN inserts}

\* The merge of one backup table into the committed rows; a failure or a
\* stop request rolls the whole transaction back.
import_person_identity_map(rows, nid, table_data, stopped) ==
    LET plan == PlanImport(rows, table_data, 1,
                           [live |-> LiveMaps(rows), inserts |-> <<>>,
                            simple_updates |-> <<>>, complex_merges |-> <<>>])
        merged == ComplexMerges(rows, [rows |-> rows, failed |-> FALSE],
                                plan.complex_merges, 1)
        updated == SimpleUpdates(merged.rows, plan.simple_updates)
    IN IF merged.failed \/ stopped
         THEN [rows |-> rows, next_id |-> nid, committed |-> FALSE]
         ELSE [rows |-> Inserts(updated, nid, plan.inserts),
               next_id |-> nid + Len(plan.inserts),
               committed |-> TRUE]

\* ------------------------------------------------------------------------
\* Inputs
\* ------------------------------------------------------------------------
RawNames == {" ", "A", " A "}
RawTmdb == {NULL, " T1 ", "T1", "T2"}
PersonData ==
    [name : RawNames, emby_id : EmbyIds \cup {NULL}, tmdb_id : RawTmdb,
     imdb_id : ImdbIds \cup {NULL}, douban_id : DoubanIds \cup {NULL}]

\* Rows of a backup file: an export of a map in which every id is unique.
BackupRows ==
    [primary_name : {"A"}, tmdb_person_id : TmdbIds \cup {NULL},
     emby_person_id : EmbyIds \cup {NULL}, imdb_id : ImdbIds \cup {NULL},
     douban_celebrity_id : DoubanIds \cup {NULL}]

BackupUnique(table_data) ==
    \A i, j \in DOMAIN table_data : \A k \in IdFieldSet :
        (Truthy(table_data[i][k]) /\ table_data[i][k] = table_data[j][k]) => i = j

\* Backup tables of one or two rows.
BackupTables ==
    {t \in {<<a>> : a \in BackupRows} \cup {<<a, b>> : a, b \in BackupRows} :
        BackupUnique(t)}

vars == <<identityVars, logVars, transVars, taskVars, castVars, extVars>>

\* ------------------------------------------------------------------------
\* Identity map: specification
\* ------------------------------------------------------------------------
InitIdentity == InitIdle

UpsertPerson ==
    \E p \in PersonData :
        LET res == upsert_person(pim, next_id, p)
        IN /\ res.next_id <= MaxMapId + 1
           /\ pim' = res.rows
           /\ next_id' = res.next_id
           /\ last_ret' = last_ret
           /\ UNCHANGED <<cands, applied, logVars, transVars, taskVars, castVars, extVars>>

\* One run of the enricher: a Phase A batch and, unless the time budget has
\* run out, Phase B.
EnrichAliases ==
    \E resp \in [{r.tmdb_person_id : r \in Needy(pim, "tmdb_person_id")} -> TmdbResponses],
       expired \in BOOLEAN :
      \E order \in Orders({t \in DOMAIN resp : resp[t] \in ImdbIds}) :
        LET a == PhaseABatch(pim, next_id, resp, order)
        IN \E respB \in [MapIds(Needy(a.rows, "douban_celebrity_id")) -> DoubanResponses] :
             LET b == IF expired THEN a ELSE PhaseB(a.rows, a.next_id, respB)
             IN /\ expired => respB = [m \in DOMAIN respB |-> "none"]
                /\ (DOMAIN resp # {} \/ DOMAIN respB # {})
                /\ pim' = b.rows
                /\ next_id' = b.next_id
                /\ UNCHANGED <<last_ret, cands, applied, logVars, transVars, taskVars, castVars, extVars>>

\* The sync cooldown (SYNC_INTERVAL_DAYS) elapses for every row.
CooldownElapses ==
    /\ \E r \in pim : r.last_synced_at = "now"
    /\ pim' = {IF r.last_synced_at = "now" THEN [r EXCEPT !.last_synced_at = NULL] ELSE r
                 : r \in pim}
    /\ UNCHANGED <<next_id, last_ret, cands, applied, logVars, transVars, taskVars, castVars, extVars>>

ImportDatabase ==
    \E stopped \in BOOLEAN :
      \E table_data \in IF stopped THEN {<<a>> : a \in BackupRows} ELSE BackupTables :
        LET res == import_person_identity_map(pim, next_id, table_data, stopped)
        IN /\ res.next_id <= MaxMapId + 1
           /\ pim' = res.rows
           /\ next_id' = res.next_id
           /\ UNCHANGED <<last_ret, cands, applied, logVars, transVars, taskVars, castVars, extVars>>

NextIdentity ==
    \/ UpsertPerson
    \/ ImportDatabase
    \/ EnrichAliases
    \/ CooldownElapses

SpecIdentity == InitIdentity /\ [][NextIdentity]_vars

\* Every non-null external ID is held by at most one row.
IdsUnique(rows) ==
    \A r1, r2 \in rows : \A k \in IdFieldSet :
        (Truthy(r1[k]) /\ r1[k] = r2[k]) => r1 = r2

MapIdsUnique(rows) == \A r1, r2 \in rows : r1.map_id = r2.map_id => r1 = r2

\* C1: after any sequence of upsert_person calls, enricher runs and
\* merge-mode imports, every non-null tmdb_person_id, emby_person_id, imdb_id
\* and douban_celebrity_id is held by at most one row of the map.
C1_IdsUnique == IdsUnique(pim) /\ MapIdsUnique(pim)

\* Three rows were inserted and have been merged into one that holds an id
\* in every column.
C1_Witness ==
    /\ next_id = MaxMapId + 1
    /\ Cardinality(pim) = 1
    /\ \A r \in pim : \A k \in IdFieldSet : Truthy(r[k])

\* ------------------------------------------------------------------------
\* Convergence of upsert_person: the same candidates in every order
\* ------------------------------------------------------------------------
Cand(name, tmdb, emby, imdb, douban) ==
    [name |-> name, emby_id |-> emby, tmdb_id |-> tmdb, imdb_id |-> imdb, douban_id |-> douban]

CandPool ==
    {Cand("A", "T1", NULL, "I1", NULL),
     Cand("B", NULL, NULL, "I1", "D1"),
     Cand("A", NULL, "E1", NULL, "D1"),
     Cand("B", "T2", NULL, "I1", NULL),
     Cand(NULL, "T1", NULL, NULL, "D1"),
     Cand("A", "T2", "E1", NULL, NULL)}

\* Number of candidates of a convergence run.
NumCands == 3

InitConverge ==
    /\ cands \in {q \in [1..NumCands -> CandPool] : \A i, j \in 1..NumCands : q[i] = q[j] => i = j}
    /\ applied = <<>>
    /\ pim = {}
    /\ next_id = 1
    /\ last_ret = 0
    /\ LogsIdle /\ TransIdle /\ TasksIdle /\ CastIdle /\ ExtIdle

ApplyCandidate ==
    \E i \in DOMAIN cands :
        /\ \A j \in DOMAIN applied : applied[j] # i
        /\ LET res == upsert_person(pim, next_id, cands[i])
           IN /\ pim' = res.rows
              /\ next_id' = res.next_id
              /\ last_ret' = res.ret
        /\ applied' = Append(applied, i)
        /\ UNCHANGED <<cands, logVars, transVars, taskVars, castVars, extVars>>

NextConverge == ApplyCandidate

SpecConverge == InitConverge /\ [][NextConverge]_vars

AllApplied == Len(applied) = Len(cands)

\* The map applying cands[i..] in index order gives
RECURSIVE InOrder(_, _)
InOrder(st, i) ==
    IF i > Len(cands) THEN st.rows
    ELSE LET r == upsert_person(st.rows, st.next_id, cands[i])
         IN InOrder([rows |-> r.rows, next_id |-> r.next_id], i + 1)

\* A map up to map_id renumbering
Renumbered(rows) ==
    {[k \in {"primary_name"} \cup IdFieldSet |-> r[k]] : r \in rows}

SuppliedIds(k) == {data_to_process(cands[i])[k] : i \in DOMAIN cands} \ {NULL}

Share(i, j) ==
    \E k \in IdFieldSet :
        /\ Truthy(data_to_process(cands[i])[k])
        /\ data_to_process(cands[i])[k] = data_to_process(cands[j])[k]

RECURSIVE Linked(_, _)
Linked(S, n) ==
    IF n = 0 THEN S
    ELSE Linked(S \cup {j \in DOMAIN cands : \E i \in S : Share(i, j)}, n - 1)

\* The candidates overlap: shared ids link them all together.
Overlapping == Linked({1}, Len(cands)) = DOMAIN cands

AllNamed == \A i \in DOMAIN cands : data_to_process(cands[i]).primary_name # ""

\* No id column is given two different values by the candidates.
ConflictFree == \A k \in IdFieldSet : Cardinality(SuppliedIds(k)) <= 1

AllIdsOnOneRow ==
    \E r \in pim : \A k \in IdFieldSet : \A v \in SuppliedIds(k) : r[k] = v

Items == {"mv1", "tv1"}
Children(item, type) ==
    IF item # "tv1" THEN {} ELSE IF type = "Season" THEN {"tv1s1"} ELSE {"tv1e1"}

\* MediaProcessorAPI: each helper opens a connection, writes and commits.
save_to_processed_log(L, ids) ==
    [L EXCEPT !.processed = @ \cup ids, !.cache = @ \cup ids]

save_to_failed_log(L, item_id) == [L EXCEPT !.failed = @ \cup {item_id}]

remove_from_failed_log_if_exists(L, item_id) == [L EXCEPT !.failed = @ \ {item_id}]

\* What one attempt meets: where the stop flag is first seen set, what the
\* media server answers, and how the cast scores against min_score_for_review.
ApiEnv ==
    [stop : {"none", "entry", "cast", "season", "episode"},
     details : {"ok", "none", "raised"},
     update_success : BOOLEAN,
     low_score : BOOLEAN]

\* MediaProcessorAPI._process_item_api_mode: the logs it leaves and the
\* exception it ends with. Its last statement returns log_dict, a name that
\* is bound nowhere in the method or the module: a run that gets there
\* raises NameError.
process_item_api_mode(L, item, env) ==
    LET seasons == save_to_processed_log(L, Children(item, "Season"))
        episodes == save_to_processed_log(seasons, Children(item, "Episode"))
        logged == IF env.low_score
                    THEN save_to_failed_log(episodes, item)
                    ELSE remove_from_failed_log_if_exists(
                             save_to_processed_log(episodes, {item}), item)
    IN IF env.stop = "cast"
         THEN [logs |-> L, raised |-> "InterruptedError"]
       ELSE IF ~env.update_success
         THEN [logs |-> L, raised |-> "RuntimeError"]
       ELSE IF env.stop = "season" /\ Children(item, "Season") # {}
         THEN [logs |-> L, raised |-> "InterruptedError"]
       ELSE IF env.stop = "episode" /\ Children(item, "Episode") # {}
         THEN [logs |-> seasons, raised |-> "InterruptedError"]
       ELSE [logs |-> logged, raised |-> "NameError"]

\* MediaProcessorAPI.process_single_item. The outcome names the branch the
\* attempt took: "success" is the one that scored at or above the threshold.
api_process_single_item(L, item, force, env) ==
    LET r == process_item_api_mode(L, item, env)
    IN IF env.stop = "entry"
         THEN [logs |-> L, returned |-> "False", outcome |-> "cancelled"]
       ELSE IF ~force /\ item \in L.cache
         THEN [logs |-> L, returned |-> "True", outcome |-> "skipped"]
       ELSE IF env.details # "ok"
         THEN [logs |-> save_to_failed_log(L, item), returned |-> "False",
               outcome |-> "details_unavailable"]
       ELSE IF r.raised = "InterruptedError"
         THEN [logs |-> r.logs, returned |-> "False", outcome |-> "cancelled"]
       ELSE [logs |-> save_to_failed_log(r.logs, item), returned |-> "False",
             outcome |-> IF r.raised = "RuntimeError" THEN "exception"
                         ELSE IF env.low_score THEN "low_score" ELSE "success"]

\* self.log_db_manager of MediaProcessorSA: writes through the cursor of the
\* item's transaction.
log_db_manager(L, method, item_id) ==
    CASE method = "save_to_processed_log" -> [L EXCEPT !.processed = @ \cup {item_id}]
      [] method = "save_to_failed_log" -> [L EXCEPT !.failed = @ \cup {item_id}]
      [] method = "remove_from_failed_log" -> [L EXCEPT !.failed = @ \ {item_id}]

\* durable: whether the failed_log row written after the rollback, on a
\* cursor that nothing commits afterwards, reaches the database.
SaEnv ==
    [stop : {"none", "entry", "core_entry", "api_track", "late"},
     details : BOOLEAN, tmdb_id : BOOLEAN, base_json : BOOLEAN,
     error : BOOLEAN, refresh_success : BOOLEAN, low_score : BOOLEAN,
     durable : BOOLEAN]

\* MediaProcessorSA._process_item_core_logic
process_item_core_logic(L, item, env) ==
    IF env.stop \in {"core_entry", "api_track"}
      THEN [logs |-> L, returned |-> "False", outcome |-> "cancelled"]
    ELSE IF ~env.tmdb_id
      THEN [logs |-> L, returned |-> "False", outcome |-> "missing_tmdb_id"]
    ELSE IF ~env.base_json
      THEN [logs |-> log_db_manager(L, "save_to_failed_log", item),
            returned |-> "False", outcome |-> "missing_cache_file"]
    ELSE IF env.error
      THEN [logs |-> IF env.durable THEN log_db_manager(L, "save_to_failed_log", item) ELSE L,
            returned |-> "False", outcome |-> "exception"]
    ELSE IF env.stop = "late"
      THEN [logs |-> L, returned |-> "False", outcome |-> "cancelled"]
    ELSE IF ~env.refresh_success
      THEN [logs |-> IF env.durable THEN log_db_manager(L, "save_to_failed_log", item) ELSE L,
            returned |-> "False", outcome |-> "exception"]
    ELSE IF env.low_score
      THEN [logs |-> log_db_manager(L, "save_to_failed_log", item),
            returned |-> "True", outcome |-> "low_score"]
    ELSE [logs |-> log_db_manager(log_db_manager(L, "save_to_processed_log", item),
                                  "remove_from_failed_log", item),
          returned |-> "True", outcome |-> "success"]

\* MediaProcessorSA.process_single_item. The class defines no
\* save_to_failed_log: the call made when the item details are unavailable
\* raises AttributeError and the attempt does not return.
sa_process_single_item(L, item, env) ==
    IF env.stop = "entry"
      THEN [logs |-> L, returned |-> "False", outcome |-> "cancelled"]
    ELSE IF ~env.details
      THEN [logs |-> L, returned |-> "raised", outcome |-> "details_unavailable"]
    ELSE process_item_core_logic(L, item, env)

\* The two tables and the cache as one attempt finds them.
Logs == [processed |-> processed_log, failed |-> failed_log, cache |-> processed_items_cache]

Attempted(processor, item, r) ==
    /\ processed_log' = r.logs.processed
    /\ failed_log' = r.logs.failed
    /\ processed_items_cache' = r.logs.cache
    /\ last_attempt' = [processor |-> processor, item |-> item,
                        outcome |-> r.outcome, returned |-> r.returned]
    /\ UNCHANGED <<identityVars, transVars, taskVars, castVars, extVars>>

ApiProcessSingleItem ==
    \E item \in Items, force \in BOOLEAN, env \in ApiEnv :
        Attempted("api", item, api_process_single_item(Logs, item, force, env))

SaProcessSingleItem ==
    \E item \in Items, env \in SaEnv :
        Attempted("sa", item, sa_process_single_item(Logs, item, env))

\* A processor is constructed: processed_items_cache is loaded from the table.
LoadProcessedLog ==
    /\ processed_items_cache # processed_log
    /\ processed_items_cache' = processed_log
    /\ UNCHANGED <<processed_log, failed_log, last_attempt, identityVars, transVars, taskVars, castVars, extVars>>

NextLogs ==
    \/ ApiProcessSingleItem
    \/ SaProcessSingleItem
    \/ LoadProcessedLog

SpecLogs == InitIdle /\ [][NextLogs]_vars

C16_FailureLogged ==
    [][(last_attempt'.outcome = "exception" /\ last_attempt'.returned = "False")
          => /\ last_attempt'.item \in failed_log'
             /\ processed_log' = processed_log]_vars

Upper == {"A", "B"}
Lower == {"a", "b", "o"}
HanChars == {"zh", "yan", "yuan", "pei", "yin"}

Texts ==
    {<<>>, <<" ">>, <<"A", "B">>, <<"A", "o">>, <<"A", "o", " ">>,
     <<"zh", "o">>, <<"ka">>}

\* str.strip()
StripText(t) ==
    LET inked == {i \in DOMAIN t : t[i] # " "}
    IN IF inked = {} THEN <<>>
       ELSE SubSeq(t, CHOOSE i \in inked : \A j \in inked : i <= j,
                      CHOOSE i \in inked : \A j \in inked : j <= i)

\* str.lower()
lower(t) ==
    [i \in DOMAIN t |-> CASE t[i] = "A" -> "a" [] t[i] = "B" -> "b" [] OTHER -> t[i]]

\* str.isupper(): there is a cased character and none is lower-case
isupper(t) == (\E i \in DOMAIN t : t[i] \in Upper) /\ (\A i \in DOMAIN t : t[i] \notin Lower)

contains_chinese(t) == \E i \in DOMAIN t : t[i] \in HanChars

skips_translation_no_initials(text) ==
    text = <<>> \/ StripText(text) = <<>> \/ contains_chinese(text)

\* translate_actor_field, the checks made before the cache is read
skips_translation(text) ==
    \/ text = <<>> \/ StripText(text) = <<>> \/ contains_chinese(text)
    \/ (Len(StripText(text)) <= 2 /\ isupper(StripText(text)))

\* A cache entry that records a failed translation.
Negative(entry) ==
    /\ entry.translated_text = <<>>
    /\ entry.engine_used \in {"failed_or_same_via_ai", "failed_or_same_via_bing",
                              "failed_or_same_via_unknown"}

\* step 5 of translate_actor_field: the entry saved after an online
\* translation that gave final_translation through final_engine
SavedEntry(key, final_translation, final_engine) ==
    IF /\ final_translation # <<>>
       /\ StripText(final_translation) # <<>>
       /\ lower(StripText(final_translation)) # lower(key)
      THEN [translated_text |-> final_translation, engine_used |-> final_engine]
      ELSE [translated_text |-> <<>>,
            engine_used |-> CASE final_engine = "ai" -> "failed_or_same_via_ai"
                              [] final_engine = "bing" -> "failed_or_same_via_bing"
                              [] OTHER -> "failed_or_same_via_unknown"]

\* What a translator can answer for a text: nothing, the text itself, the
\* text in lower case, or a Chinese translation.
Answers(key) == {<<>>, key, lower(key), <<"zh">>}

Untouched(cache, text) ==
    [cache |-> cache, ret |-> text, read |-> {}, written |-> {},
     ai_calls |-> {}, engine_calls |-> {}]

\* What a call does once it has decided to translate key online.
Online(cache, text, key, ai_calls, engine_calls, final_translation, final_engine) ==
    LET entry == SavedEntry(key, final_translation, final_engine)
    IN [cache |-> (key :> entry) @@ cache,
        ret |-> IF entry.translated_text # <<>> THEN final_translation ELSE text,
        read |-> {key}, written |-> {key},
        ai_calls |-> ai_calls, engine_calls |-> engine_calls]

\* actor_utils.translate_actor_field. ai: ai_translator and ai_enabled;
\* ai_result: what the AI translator answers (<<>> also when it raises);
\* engine_result: what translate_text_with_translators finds (<<>>: nothing)
translate_actor_field(cache, text, ai, ai_result, engine_result) ==
    LET key == StripText(text)
        final_translation == IF ai /\ ai_result # <<>> THEN ai_result ELSE engine_result
        final_engine == IF ai /\ ai_result # <<>> THEN "ai"
                        ELSE IF engine_result # <<>> THEN "bing" ELSE "unknown"
    IN IF skips_translation(text) THEN Untouched(cache, text)
       ELSE IF key \in DOMAIN cache
         THEN [Untouched(cache, text) EXCEPT
                 !.read = {key},
                 !.ret = IF cache[key].translated_text # <<>>
                           THEN cache[key].translated_text ELSE text]
       ELSE Online(cache, text, key,
                   IF ai THEN {key} ELSE {},
                   IF ai /\ ai_result # <<>> THEN {} ELSE {key},
                   final_translation, final_engine)

\* MediaProcessorAPI._translate_actor_field
api_translate_actor_field(cache, text, ai, ai_result, engine_result) ==
    LET key == StripText(text)
    IN IF text = <<>> \/ key = <<>> \/ contains_chinese(text)
         THEN Untouched(cache, text)
       ELSE IF Len(key) = 1 /\ lower(key)[1] \in {"a", "b", "o"}
         THEN Untouched(cache, text)
       ELSE IF Len(key) = 2 /\ isupper(key) /\ \A i \in DOMAIN key : key[i] \in Upper
         THEN Untouched(cache, text)
       ELSE IF key \in DOMAIN cache /\ cache[key].translated_text # <<>>
         THEN [Untouched(cache, text) EXCEPT
                 !.read = {key}, !.ret = cache[key].translated_text]
       ELSE Online(cache, text, key,
                   IF ai THEN {key} ELSE {},
                   IF ai THEN {} ELSE {key},
                   IF ai THEN ai_result ELSE engine_result,
                   IF ai THEN "ai" ELSE IF engine_result # <<>> THEN "bing" ELSE "unknown")

\* actor_utils.batch_translate_cast on the Name and Role texts of a cast
\* list. api_results: the texts the AI translator returns a translation for;
\* without an AI translator the call raises before any request is made.
batch_translate_cast(cache, texts, ai, api_results) ==
    LET wanted == {t \in texts : t # <<>> /\ StripText(t) # <<>> /\ ~contains_chinese(t)}
        texts_to_translate ==
            {t \in wanted : ~(t \in DOMAIN cache /\ cache[t].translated_text # <<>>)}
        saved == IF ai THEN api_results \cap texts_to_translate ELSE {}
    IN [cache |-> [t \in saved |-> [translated_text |-> <<"zh">>, engine_used |-> "ai"]] @@ cache,
        ret |-> <<>>,
        read |-> wanted, written |-> saved,
        ai_calls |-> IF ai THEN texts_to_translate ELSE {},
        engine_calls |-> {}]

Translated(fn, text, r) ==
    /\ translation_cache' = r.cache
    /\ last_tr' = [fn |-> fn, text |-> text,
                   neg_before |-> {k \in DOMAIN translation_cache :
                                     Negative(translation_cache[k])},
                   read |-> r.read, written |-> r.written,
                   ai_calls |-> r.ai_calls, engine_calls |-> r.engine_calls,
                   ret |-> r.ret]
    /\ UNCHANGED <<identityVars, logVars, taskVars, castVars, extVars>>

TranslateActorField ==
    \E text \in Texts, ai \in BOOLEAN :
      \E ai_result \in Answers(StripText(text)), engine_result \in {<<>>, <<"zh">>} :
        Translated("translate_actor_field", text,
                   translate_actor_field(translation_cache, text, ai, ai_result, engine_result))

ApiTranslateActorField ==
    \E text \in Texts, ai \in BOOLEAN :
      \E ai_result \in Answers(StripText(text)), engine_result \in {<<>>, <<"zh">>} :
        Translated("_translate_actor_field", text,
                   api_translate_actor_field(translation_cache, text, ai, ai_result, engine_result))

BatchTranslateCast ==
    \E texts \in SUBSET Texts, ai \in BOOLEAN :
      \E api_results \in SUBSET texts :
        /\ Cardinality(texts) \in {1, 2}
        /\ Translated("batch_translate_cast", <<>>,
                      batch_translate_cast(translation_cache, texts, ai, api_results))

NextTranslate ==
    \/ TranslateActorField
    \/ ApiTranslateActorField
    \/ BatchTranslateCast

SpecTranslate == InitIdle /\ [][NextTranslate]_vars

\* C4: once translation_cache holds a failed entry for a text, no later
\* translation of that text, single-field or batch, calls the AI translator
\* or a fallback engine.
C4_NegativeCacheRespected ==
    (last_tr.ai_calls \cup last_tr.engine_calls) \cap last_tr.neg_before = {}

\* C10 as stated: translate_actor_field on a text that is empty,
\* whitespace-only, contains a CJK character (Chinese or kana) or consists
\* of one or two upper-case letters returns the text unchanged, reads and
\* writes no translation_cache entry and calls no translator.
C10_Original ==
    LET t == last_tr.text
    IN (/\ last_tr.fn = "translate_actor_field"
        /\ \/ t = <<>>
           \/ \A i \in DOMAIN t : t[i] = " "
           \/ \E i \in DOMAIN t : t[i] \in HanChars \cup {"ka"}
           \/ (Len(t) \in {1, 2} /\ \A i \in DOMAIN t : t[i] \in Upper))
       => /\ last_tr.ret = t
          /\ last_tr.read = {} /\ last_tr.written = {}
          /\ last_tr.ai_calls = {} /\ last_tr.engine_calls = {}

\* C10 amended: translate_actor_field on a text that is empty,
\* whitespace-only, contains a character of the ranges contains_chinese
\* tests or consists of one or two upper-case letters returns the text
\* unchanged, reads and writes no translation_cache entry and calls no
\* translator.
C10_PrefilterNoOp ==
    LET t == last_tr.text
    IN (/\ last_tr.fn = "translate_actor_field"
        /\ \/ t = <<>>
           \/ \A i \in DOMAIN t : t[i] = " "
           \/ \E i \in DOMAIN t : t[i] \in HanChars
           \/ (Len(t) \in {1, 2} /\ \A i \in DOMAIN t : t[i] \in Upper))
       => /\ last_tr.ret = t
          /\ last_tr.read = {} /\ last_tr.written = {}
          /\ last_tr.ai_calls = {} /\ last_tr.engine_calls = {}

\* translate_actor_field was given two upper-case letters while the cache
\* held an entry under that very text, and left it unread.
C10_Witness ==
    /\ last_tr.fn = "translate_actor_field"
    /\ last_tr.text = <<"A", "B">>
    /\ <<"A", "B">> \in DOMAIN translation_cache
    /\ last_tr.read = {}

\* ------------------------------------------------------------------------
\* Tasks: the trigger endpoint, the stop flag and three task programs
\* ------------------------------------------------------------------------
\* A task is a program: each position does one thing and names the
\* positions that can follow. op "call" is one adapter call (HTTP request,
\* image download, translation, server refresh); "check" reads the stop
\* flag and goes to on_stop when it is set; "check_or_timeout" goes there
\* also when the run's time budget is used up; "local" touches nothing
\* shared. The line of the statement is given after each position.

\* MediaProcessorSA.process_full_library, run by task_process_full_library
FullScan ==
    [start |-> [op |-> "clear_stop", next |-> {"libs", "end"}],                     \* 883, 885-888
     libs |-> [op |-> "call", next |-> {"movies"}],                                 \* 892
     movies |-> [op |-> "call", next |-> {"series"}],                               \* 897
     series |-> [op |-> "call", next |-> {"empty", "loop"}],                        \* 898, 915
     empty |-> [op |-> "report", value |-> {100}, next |-> {"end"}],                \* 918
     loop |-> [op |-> "check", on_stop |-> "after", next |-> {"skip", "item"}],     \* 922, 929
     skip |-> [op |-> "report", value |-> {50, 100}, next |-> {"loop", "after"}],   \* 932
     item |-> [op |-> "report", value |-> {50, 100}, next |-> {"single"}],          \* 936
     single |-> [op |-> "check", on_stop |-> "sleep", next |-> {"details"}],        \* 857
     details |-> [op |-> "call", next |-> {"core", "end"}],                         \* 860; 862 raises
     core |-> [op |-> "check", on_stop |-> "sleep", next |-> {"begin"}],            \* 625
     begin |-> [op |-> "begin", next |-> {"track_ai", "after_track"}],              \* 635
     track_ai |-> [op |-> "call", next |-> {"track_loop", "after_track"}],          \* 569
     track_loop |-> [op |-> "check", on_stop |-> "after_track",
                     next |-> {"track_update"}],                                    \* 581
     track_update |-> [op |-> "call", next |-> {"track_loop", "after_track"}],      \* 591
     after_track |-> [op |-> "check", on_stop |-> "interrupted",
                      next |-> {"no_log", "file_missing", "douban", "promote",
                                "ai_batch", "fallback", "files"}],                  \* 642, 646, 664
     no_log |-> [op |-> "commit", next |-> {"sleep"}],                              \* 650, 700
     file_missing |-> [op |-> "commit", next |-> {"sleep"}],                        \* 834-836
     douban |-> [op |-> "call",
                 next |-> {"promote", "ai_batch", "fallback", "files"}],            \* 256, 233
     promote |-> [op |-> "check", on_stop |-> "interrupted",
                  next |-> {"promote", "ai_batch", "fallback", "files"}],           \* 330
     ai_batch |-> [op |-> "call", next |-> {"fallback", "files"}],                  \* 429
     fallback |-> [op |-> "check", on_stop |-> "interrupted",
                   next |-> {"fallback_field"}],                                    \* 468
     fallback_field |-> [op |-> "call", next |-> {"fallback", "files", "error"}],   \* 472-475
     files |-> [op |-> "local", next |-> {"images", "scoring", "error"}],           \* 735-761
     images |-> [op |-> "check", on_stop |-> "interrupted", next |-> {"poster"}],   \* 765
     poster |-> [op |-> "call", next |-> {"fanart"}],                               \* 770
     fanart |-> [op |-> "call", next |-> {"logo"}],                                 \* 770
     logo |-> [op |-> "call", next |-> {"scoring"}],                                \* 770
     scoring |-> [op |-> "check", on_stop |-> "interrupted", next |-> {"refresh"}], \* 795
     refresh |-> [op |-> "call", next |-> {"logged", "error"}],                     \* 805, 814
     logged |-> [op |-> "commit", next |-> {"sleep"}],                              \* 816-827
     interrupted |-> [op |-> "rollback", next |-> {"sleep"}],                       \* 841
     error |-> [op |-> "rollback", next |-> {"sleep"}],                             \* 848
     sleep |-> [op |-> "local", next |-> {"loop", "after"}],                        \* 941
     after |-> [op |-> "check", on_stop |-> "end", next |-> {"finished"}],          \* 943
     finished |-> [op |-> "report", value |-> {100}, next |-> {"end"}]]             \* 944

\* task_enrich_aliases around enrich_all_actor_aliases_task
EnrichTask ==
    [start |-> [op |-> "report", value |-> {0}, next |-> {"no_key", "phase_a", "after_a"}], \* tasks 182
     no_key |-> [op |-> "report", value |-> {-1}, next |-> {"end"}],                \* tasks 193
     phase_a |-> [op |-> "check_or_timeout", on_stop |-> "after_a",
                  next |-> {"fetch"}],                                              \* 730
     fetch |-> [op |-> "call", next |-> {"fetch", "completed"}],                    \* 741
     completed |-> [op |-> "check", on_stop |-> "interrupted",
                    next |-> {"completed", "write", "phase_a", "after_a"}],         \* 744
     write |-> [op |-> "commit", next |-> {"phase_a", "after_a"}],                  \* 775-793
     after_a |-> [op |-> "check_or_timeout", on_stop |-> "interrupted",
                  next |-> {"begin_b", "finished"}],                                \* 803, 815
     begin_b |-> [op |-> "begin", next |-> {"phase_b"}],                            \* 817
     phase_b |-> [op |-> "check_or_timeout", on_stop |-> "commit_b",
                  next |-> {"celebrity"}],                                          \* 820
     celebrity |-> [op |-> "call", next |-> {"phase_b", "commit_50", "commit_b"}],  \* 823
     commit_50 |-> [op |-> "commit", next |-> {"begin_b", "commit_b"}],             \* 836-838
     commit_b |-> [op |-> "commit", next |-> {"finished"}],                         \* 842
     interrupted |-> [op |-> "rollback", next |-> {"finished"}],                    \* 850-852
     finished |-> [op |-> "report", value |-> {100}, next |-> {"end"}]]             \* tasks 218

\* task_actor_translation_cleanup
CleanupTask ==
    [start |-> [op |-> "report", value |-> {5}, next |-> {"prepare"}],              \* 653
     prepare |-> [op |-> "call", next |-> {"nothing", "ready", "failed"}],          \* 656
     nothing |-> [op |-> "report", value |-> {100}, next |-> {"end"}],              \* 665
     ready |-> [op |-> "report", value |-> {50}, next |-> {"name"}],                \* 669
     name |-> [op |-> "check", on_stop |-> "final",
               next |-> {"name", "update", "final"}],                               \* 677, 681
     update |-> [op |-> "call", next |-> {"update", "moved", "failed"}],            \* 687
     moved |-> [op |-> "report", value |-> {75, 100}, next |-> {"name", "final"}],  \* 699-700
     final |-> [op |-> "check", on_stop |-> "done", next |-> {"done"}],             \* 704
     done |-> [op |-> "report", value |-> {100}, next |-> {"end"}],                 \* 706
     failed |-> [op |-> "report", value |-> {-1}, next |-> {"end"}]]                \* 711

\* tasks.get_task_registry, the entries whose task functions are modelled
TaskKeys == {"full-scan", "enrich-aliases", "actor-cleanup"}

Program(key) ==
    CASE key = "full-scan" -> FullScan
      [] key = "enrich-aliases" -> EnrichTask
      [] key = "actor-cleanup" -> CleanupTask

\* Calls and commits counted after signal_stop: the count stops here.
MaxAfterStop == 2

\* One statement of the running task.
TaskStep ==
    /\ running # <<>> /\ pc # "end"
    /\ LET ins == Program(running[1])[pc]
           sees == ins.op \in {"check", "check_or_timeout"} /\ stop
           acts == ins.op \in {"call", "commit"}
       IN /\ pc' \in (IF sees THEN {ins.on_stop}
                      ELSE IF ins.op = "check_or_timeout" THEN ins.next \cup {ins.on_stop}
                      ELSE ins.next)
          /\ stop' = (stop /\ ins.op # "clear_stop")
          /\ progress' \in (IF ins.op = "report" THEN ins.value ELSE {progress})
          /\ observed' = (observed \/ sees)
          /\ since_observe' = IF observed /\ acts THEN since_observe \cup {ins.op}
                              ELSE since_observe
          /\ txn_open' = CASE ins.op = "begin" -> TRUE
                           [] ins.op \in {"commit", "rollback"} -> FALSE
                           [] OTHER -> txn_open
          /\ after_stop' = IF acts /\ after_stop >= 0 /\ after_stop < MaxAfterStop
                              /\ progress # -1
                             THEN after_stop + 1 ELSE after_stop
    /\ UNCHANGED <<running, response, identityVars, logVars, transVars, castVars, extVars>>

\* api_handle_trigger_stop_task: signal_stop on the processor
SignalStop ==
    /\ ~stop \/ (running # <<>> /\ after_stop = -1)
    /\ stop' = TRUE
    /\ after_stop' = IF running # <<>> /\ after_stop = -1 THEN 0 ELSE after_stop
    /\ UNCHANGED <<running, pc, progress, observed, since_observe, txn_open, response,
                   identityVars, logVars, transVars, castVars, extVars>>

\* task_manager.submit_task: the single slot takes a task only when it is free
submit_task(slot, key) ==
    IF slot = <<>> THEN [success |-> TRUE, slot |-> <<key>>]
    ELSE [success |-> FALSE, slot |-> slot]

trigger_status_accepting(task_info, success) == IF task_info THEN 202 ELSE 404

\* api_trigger_task_now: the HTTP status of the answer
trigger_status(task_info, success) ==
    IF ~task_info THEN 404 ELSE IF success THEN 202 ELSE 409

\* POST /api/tasks/trigger/<task_identifier>
TriggerTask ==
    \E key \in TaskKeys \cup {"unknown"} :
      LET task_info == key \in TaskKeys
          sub == IF task_info THEN submit_task(running, key)
                 ELSE [success |-> FALSE, slot |-> running]
      IN /\ response' = [status |-> trigger_status(task_info, sub.success),
                         seq |-> 1 - response.seq]
         /\ running' = sub.slot
         /\ IF sub.success
              THEN /\ pc' = "start" /\ progress' = 0 /\ observed' = FALSE
                   /\ since_observe' = {} /\ txn_open' = FALSE /\ after_stop' = -1
              ELSE UNCHANGED <<pc, progress, observed, since_observe, txn_open, after_stop>>
         /\ UNCHANGED <<stop, identityVars, logVars, transVars, castVars, extVars>>

\* The task function has returned or raised: the slot is free again.
TaskEnds ==
    /\ running # <<>> /\ pc = "end"
    /\ running' = <<>> /\ pc' = "idle"
    /\ observed' = FALSE /\ since_observe' = {} /\ txn_open' = FALSE /\ after_stop' = -1
    /\ UNCHANGED <<stop, progress, response, identityVars, logVars, transVars, castVars, extVars>>

NextTasks ==
    \/ TriggerTask
    \/ TaskStep
    \/ SignalStop
    \/ TaskEnds

SpecTasks == InitIdle /\ [][NextTasks]_vars

\* C5: after signal_stop is called while a task is running, the task makes at
\* most one further adapter call or DB commit before the reported progress
\* becomes -1.
C5_AtMostOneAfterStop == after_stop <= 1

\* C6: a task that has observed the stop flag ends with its transaction
\* rolled back, no adapter call or commit made after the observation, and a
\* last reported progress of -1.
C6_StopAborts ==
    (running # <<>> /\ pc = "end" /\ observed) =>
        /\ progress = -1
        /\ since_observe = {}
        /\ ~txn_open

\* C9: at most one task runs at a time, and a submit made while a task is
\* running is answered 409 and neither starts nor queues a second task.
C9_SingleSlot ==
    /\ [](Len(running) <= 1)
    /\ [][(response' # response /\ running # <<>> /\ response'.status # 404) =>
             (response'.status = 409 /\ running' = running /\ pc' = pc)]_vars

\* A submit was answered 409 while a task was in the middle of its program.
C9_Witness ==
    /\ response.status = 409
    /\ running = <<"full-scan">>
    /\ pc = "refresh"

\* ------------------------------------------------------------------------
\* Functions without side effects, applied once to arguments drawn at the
\* start: role selection.
\* ------------------------------------------------------------------------
baseVars == <<identityVars, logVars, transVars, taskVars, castVars>>
BaseIdle == IdentityIdle /\ LogsIdle /\ TransIdle /\ TasksIdle /\ CastIdle

placeholders ==
    { <<"a", "c", "t", "o", "r">>, <<"a", "c", "t", "r", "e", "s", "s">>,
      <<"yan", "yuan">>, <<"pei", "yin">> }

\* MediaProcessorAPI._select_best_role
api_select_best_role(current, candidate) ==
    LET current_role == StripText(current)
        candidate_role == StripText(candidate)
    IN IF candidate_role # <<>> /\ candidate_role # <<"yan", "yuan">>
       THEN candidate_role
       ELSE current_role

\* actor_utils.select_best_role
select_best_role(current, candidate) ==
    LET current_role == StripText(current)
        candidate_role == StripText(candidate)
        current_is_chinese == contains_chinese(current_role)
        candidate_is_chinese == contains_chinese(candidate_role)
        current_is_placeholder == lower(current_role) \in placeholders
        candidate_is_placeholder == lower(candidate_role) \in placeholders
    IN CASE candidate_is_chinese /\ ~candidate_is_placeholder -> candidate_role
         [] current_is_chinese /\ ~current_is_placeholder /\ ~candidate_is_chinese ->
                current_role
         [] candidate_role # <<>> /\ ~candidate_is_placeholder -> candidate_role
         [] current_role # <<>> /\ ~current_is_placeholder -> current_role
         [] candidate_role # <<>> -> candidate_role
         [] current_role # <<>> -> current_role
         [] OTHER -> <<>>

Roles ==
    { <<>>, <<" ">>, <<"zh", "zh">>, <<" ", "zh", "o">>, <<"A", "o">>,
      <<"A", "c", "t", "o", "r">>, <<"yan", "yuan">>, <<"ka">> }

InitRoles ==
    /\ BaseIdle
    /\ call_in \in [current : Roles, candidate : Roles]
    /\ call_out = [fn |-> NULL, ret |-> <<>>]
    /\ FilesIdle /\ EditIdle

SelectBestRole ==
    /\ call_out.fn = NULL
    /\ call_out' = [fn |-> "select_best_role",
                    ret |-> select_best_role(call_in.current, call_in.candidate)]
    /\ UNCHANGED <<call_in, baseVars, fileVars, editVars>>

ApiSelectBestRole ==
    /\ call_out.fn = NULL
    /\ call_out' = [fn |-> "_select_best_role",
                    ret |-> api_select_best_role(call_in.current, call_in.candidate)]
    /\ UNCHANGED <<call_in, baseVars, fileVars, editVars>>

NextRoles == SelectBestRole \/ ApiSelectBestRole

SpecRoles == InitRoles /\ [][NextRoles]_vars

\* C11: role selection never replaces a current role that contains a Chinese
\* character and is not a placeholder by a candidate that contains none.
C11_ChineseRoleKept ==
    (/\ call_out.fn \in {"select_best_role", "_select_best_role"}
     /\ contains_chinese(StripText(call_in.current))
     /\ lower(StripText(call_in.current)) \notin placeholders
     /\ ~contains_chinese(call_in.candidate))
        => call_out.ret = StripText(call_in.current)

\* ------------------------------------------------------------------------
\* Cast processing: MediaProcessorSA._process_cast_list_from_local and
\* MediaProcessorAPI._process_cast_list.  A cast record carries id (the
\* person's TMDb id, NULL when absent), name, order, character and douban_id.
\* Translation rewrites name and character in place and neither adds nor
\* removes a record; for MediaProcessorAPI the model follows which records are
\* returned, not the fields its matching rewrites.
\* ------------------------------------------------------------------------
MaxSeed == 3
MaxLimit == 3
DefaultLimit == 30

\* dict.get(key): None when the key is absent
Get(d, k) == IF k \in DOMAIN d THEN d[k] ELSE NULL

\* A dict, in insertion order: d[key] = value
dict_set(d, k, v) ==
    IF \E i \in 1..Len(d) : d[i].key = k
    THEN [i \in 1..Len(d) |-> IF d[i].key = k THEN [key |-> k, value |-> v] ELSE d[i]]
    ELSE Append(d, [key |-> k, value |-> v])

dict_values(d) == [i \in 1..Len(d) |-> d[i].value]

name_lower(name) == IF name = "Ann" THEN "ann" ELSE name

\* The first pass over the seed: records with an id, keyed by id.
RECURSIVE cast_map_by_id(_, _)
cast_map_by_id(local_cast_list, n) ==
    IF n = 0 THEN <<>>
    ELSE LET d == cast_map_by_id(local_cast_list, n - 1)
             actor == local_cast_list[n]
         IN IF actor.id # NULL THEN dict_set(d, <<"id", actor.id>>, actor) ELSE d

\* The second pass: records without an id, keyed by lower-cased name, first wins.
RECURSIVE final_cast_map(_, _)
final_cast_map(local_cast_list, n) ==
    IF n = 0 THEN cast_map_by_id(local_cast_list, Len(local_cast_list))
    ELSE LET d == final_cast_map(local_cast_list, n - 1)
             actor == local_cast_list[n]
             name_key == <<"name", name_lower(actor.name)>>
         IN IF actor.id = NULL /\ ~(\E i \in 1..Len(d) : d[i].key = name_key)
            THEN dict_set(d, name_key, actor)
            ELSE d

\* Douban candidates that match no record of the cast by name.
unmatched_douban_candidates(douban_candidates, cast) ==
    SelectSeq(douban_candidates,
              LAMBDA d_actor : ~(\E i \in 1..Len(cast) :
                                   name_lower(d_actor.Name) = name_lower(cast[i].name)))

\* utils.clean_character_name_static on a role without brackets and without
\* an "as" or voice-role affix: the role stripped, cut down to its leading
\* Chinese part when Latin letters follow it.
clean_character_name_static(character_name) ==
    LET name == StripText(character_name)
        letters == Upper \cup Lower \cup {"c", "t", "r", "e", "s"}
        lead == {m \in 1..Len(name) : \A i \in 1..m : name[i] \in HanChars}
        m == CHOOSE x \in lead : \A y \in lead : y <= x
    IN IF lead # {} /\ (\E i \in 1..Len(name) : name[i] \in letters)
       THEN StripText(SubSeq(name, 1, m))
       ELSE name

\* Matching step 1: each Douban candidate updates the first record of the
\* cast whose name equals its name, case-folded.
RECURSIVE merge_matched(_, _)
merge_matched(cast_map, douban_candidates) ==
    IF douban_candidates = <<>> THEN cast_map
    ELSE LET d_actor == Head(douban_candidates)
             hits == {i \in 1..Len(cast_map) :
                        name_lower(d_actor.Name) = name_lower(cast_map[i].value.name)}
             first == CHOOSE i \in hits : \A j \in hits : i <= j
             l_actor == cast_map[first].value
             updated ==
                 [l_actor EXCEPT
                    !.name = d_actor.Name,
                    !.character = select_best_role(
                                      @, clean_character_name_static(d_actor.Role)),
                    !.douban_id = IF d_actor.DoubanCelebrityId # NULL
                                  THEN d_actor.DoubanCelebrityId ELSE @]
         IN merge_matched(IF hits = {} THEN cast_map
                          ELSE [cast_map EXCEPT ![first].value = updated],
                          Tail(douban_candidates))

\* The limit in force: the configured one when it is positive.
effective_limit(limit) == IF limit <= 0 THEN DefaultLimit ELSE limit

\* person_identity_map rows the overflow lookup can find: douban id -> tmdb id
find_person_in_map_by_douban_id(douban_id) ==
    CASE douban_id = "d1" -> "t1"
      [] douban_id = "d2" -> "t9"
      [] OTHER -> NULL

celebrity_id_of(d_actor) == Get(d_actor, "DoubanCelebrityId")

\* The Douban id the overflow step looks a candidate up by.
douban_id_of(d_actor) == Get(d_actor, "douban_id")

\* The overflow step: a candidate whose Douban id maps to a TMDb id that is
\* not in the cast yet is added with order -1.
RECURSIVE promote(_, _)
promote(cast_map, unmatched) ==
    IF unmatched = <<>> THEN cast_map
    ELSE LET d_actor == Head(unmatched)
             d_douban_id == douban_id_of(d_actor)
             tmdb_id_from_map == find_person_in_map_by_douban_id(d_douban_id)
             key == <<"id", tmdb_id_from_map>>
             added ==
                 IF /\ d_douban_id # NULL
                    /\ tmdb_id_from_map # NULL
                    /\ ~(\E i \in 1..Len(cast_map) : cast_map[i].key = key)
                 THEN dict_set(cast_map, key,
                               [id |-> tmdb_id_from_map, name |-> Get(d_actor, "name"),
                                order |-> -1,
                                character |-> IF Get(d_actor, "character") = NULL
                                              THEN <<>> ELSE Get(d_actor, "character"),
                                douban_id |-> d_douban_id])
                 ELSE cast_map
         IN promote(added, Tail(unmatched))

\* list.sort on order, a missing or negative order counting as 999 (stable)
sort_by_order(cast) ==
    LET key(i) == IF cast[i].order >= 0 THEN cast[i].order ELSE 999
        rank(i) == 1 + Cardinality({j \in 1..Len(cast) :
                                      key(j) < key(i) \/ (key(j) = key(i) /\ j < i)})
    IN [p \in 1..Len(cast) |-> cast[CHOOSE i \in 1..Len(cast) : rank(i) = p]]

truncate(cast, limit) ==
    IF Len(cast) > limit THEN SubSeq(sort_by_order(cast), 1, limit) ELSE cast

\* cast_in.stop says when the stop flag is set, after which it stays set:
\* during the seed pass (after k records), during name matching, during the
\* overflow step, during translation, or not at all; "error" stands for an
\* exception raised inside the call, and "storage_error" for an sqlite3.Error
\* raised by the statement of the map update that follows k successful ones.
StopPoints ==
    {[phase |-> p, k |-> 0] : p \in {"match", "overflow", "translate", "none", "error"}}
        \cup {[phase |-> p, k |-> k] : p \in {"seed", "storage_error"}, k \in 0..(MaxSeed - 1)}

\* The map updates made before truncation: upsert_person for each record, in
\* order; fails_at is the index of the call that meets a storage error (0:
\* none does), which upsert_person does not catch.
RECURSIVE upsert_cast(_, _, _, _)
upsert_cast(rows, nid, cast, fails_at) ==
    IF cast = <<>> THEN [rows |-> rows, next_id |-> nid, raised |-> FALSE]
    ELSE IF fails_at = 1 THEN [rows |-> rows, next_id |-> nid, raised |-> TRUE]
    ELSE LET actor_data == Head(cast)
             res == upsert_person(rows, nid,
                                  [name |-> actor_data.name, emby_id |-> NULL,
                                   tmdb_id |-> actor_data.id, imdb_id |-> NULL,
                                   douban_id |-> actor_data.douban_id])
         IN upsert_cast(res.rows, res.next_id, Tail(cast),
                        IF fails_at = 0 THEN 0 ELSE fails_at - 1)

\* MediaProcessorSA._process_cast_list_from_local; ai: the AI batch
\* translation is enabled and succeeds, so the one-by-one fallback is skipped
\* (it is FALSE when the AI translator is disabled, raises or returns
\* nothing).  The fallback loop checks the stop flag and then calls
\* actor_utils.translate_actor_field with four arguments for its five
\* parameters, which raises TypeError at the first actor.
process_cast_list_from_local(rows, nid, local_cast_list, douban_candidates, config_limit, stop_at, ai) ==
    LET seed_map == final_cast_map(local_cast_list, Len(local_cast_list))
        unmatched == unmatched_douban_candidates(douban_candidates, dict_values(seed_map))
        cast_map == merge_matched(seed_map, douban_candidates)
        limit == effective_limit(config_limit)
        supplement == Len(cast_map) < limit
        stop_in_overflow ==
            supplement /\ unmatched # <<>> /\ stop_at.phase \in {"seed", "match", "overflow"}
        intermediate_cast_list ==
            dict_values(IF supplement THEN promote(cast_map, unmatched) ELSE cast_map)
        upserted == upsert_cast(rows, nid, intermediate_cast_list,
                                IF stop_at.phase = "storage_error" THEN stop_at.k + 1 ELSE 0)
        cast_to_process == truncate(intermediate_cast_list, limit)
        stop_in_fallback ==
            /\ ~ai /\ cast_to_process # <<>>
            /\ stop_at.phase \in {"seed", "match", "overflow", "translate"}
        fallback_raises == ~ai /\ cast_to_process # <<>>
    IN IF stop_at.phase = "error" \/ stop_in_overflow
       THEN [status |-> "raised", cast |-> <<>>, rows |-> rows, next_id |-> nid]
       ELSE IF upserted.raised \/ stop_in_fallback \/ fallback_raises
       THEN [status |-> "raised", cast |-> <<>>,
             rows |-> upserted.rows, next_id |-> upserted.next_id]
       ELSE [status |-> "returned", cast |-> cast_to_process,
             rows |-> upserted.rows, next_id |-> upserted.next_id]

\* MediaProcessorAPI._process_cast_list: the seed is the server's People list
\* (Id, Name and Order are the record's id, name and order).
api_process_cast_list(current_emby_cast_people, config_limit, stop_at) ==
    LET n == Len(current_emby_cast_people)
        seen == IF stop_at.phase = "seed" /\ stop_at.k < n
                THEN SubSeq(current_emby_cast_people, 1, stop_at.k)
                ELSE current_emby_cast_people
        final_cast_list == SelectSeq(seen, LAMBDA p : p.id # NULL /\ p.name # "")
        limit == effective_limit(config_limit)
    IN CASE stop_at.phase = "error" -> [status |-> "returned", cast |-> <<>>]
         [] stop_at.phase = "storage_error" ->
                \* _update_person_map_entry_in_processor catches it and goes on
                [status |-> "returned", cast |-> truncate(final_cast_list, limit)]
         [] stop_at.phase \in {"seed", "match", "overflow"} ->
                [status |-> "returned", cast |-> final_cast_list]
         [] OTHER -> [status |-> "returned", cast |-> truncate(final_cast_list, limit)]

\* Inputs
SeedActors ==
    { [id |-> "t1", name |-> "jon hamm", order |-> 0, character |-> <<>>,
       douban_id |-> NULL],
      [id |-> "t2", name |-> "bob", order |-> 1, character |-> <<"zh", "zh">>,
       douban_id |-> NULL],
      [id |-> NULL, name |-> "Ann", order |-> -1, character |-> <<"A", "o">>,
       douban_id |-> NULL] }

\* format_douban_cast output, already de-duplicated by id and by name; "qiao
\* hamu" is the Chinese name of the actor whose TMDb name is "jon hamm".
DoubanCandidates ==
    { [Name |-> "qiao hamu", DoubanCelebrityId |-> "d1", Role |-> <<"A", "o">>],
      [Name |-> "dan", DoubanCelebrityId |-> "d2", Role |-> <<"zh", "zh">>],
      [Name |-> "ann", DoubanCelebrityId |-> "d3", Role |-> <<" ", "A", "B">>] }

\* person_identity_map as the cast processors find it.
CastPersonMap ==
    { [map_id |-> 1, primary_name |-> "jon hamm", emby_person_id |-> NULL,
       tmdb_person_id |-> "t1", imdb_id |-> NULL, douban_celebrity_id |-> "d1",
       last_synced_at |-> NULL],
      [map_id |-> 2, primary_name |-> "dan", emby_person_id |-> NULL,
       tmdb_person_id |-> "t9", imdb_id |-> NULL, douban_celebrity_id |-> "d2",
       last_synced_at |-> NULL] }

CastInputs ==
    [ seed : UNION {[1..n -> SeedActors] : n \in 0..MaxSeed},
      douban : {d \in UNION {[1..n -> DoubanCandidates] : n \in 0..2} :
                    \A i, j \in 1..Len(d) : d[i] = d[j] => i = j},
      limit : -1..MaxLimit,
      stop : StopPoints,
      ai : BOOLEAN ]

InitCast ==
    /\ pim = CastPersonMap /\ next_id = 3 /\ last_ret = 0 /\ cands = <<>> /\ applied = <<>>
    /\ LogsIdle /\ TransIdle /\ TasksIdle /\ ExtIdle
    /\ cast_in \in CastInputs
    /\ cast_out = [processor |-> NULL, status |-> NULL, cast |-> <<>>]

SaProcessCast ==
    /\ cast_out.status = NULL
    /\ LET r == process_cast_list_from_local(pim, next_id, cast_in.seed, cast_in.douban,
                                             cast_in.limit, cast_in.stop, cast_in.ai)
       IN /\ cast_out' = [processor |-> "sa", status |-> r.status, cast |-> r.cast]
          \* the caller commits what a returning call wrote and rolls back
          \* what a raising call wrote
          /\ pim' = IF r.status = "returned" THEN r.rows ELSE pim
          /\ next_id' = IF r.status = "returned" THEN r.next_id ELSE next_id
    /\ UNCHANGED <<cast_in, last_ret, cands, applied, logVars, transVars, taskVars, extVars>>

ApiProcessCast ==
    /\ cast_out.status = NULL
    /\ LET r == api_process_cast_list(cast_in.seed, cast_in.limit, cast_in.stop)
       IN cast_out' = [processor |-> "api", status |-> r.status, cast |-> r.cast]
    /\ UNCHANGED <<cast_in, identityVars, logVars, transVars, taskVars, extVars>>

NextCast == SaProcessCast \/ ApiProcessCast

SpecCast == InitCast /\ [][NextCast]_vars

C12_MatchedByDoubanId ==
    (/\ cast_out.processor = "sa"
     /\ cast_out.status = "returned"
     /\ Len(cast_in.seed) = 1 /\ cast_in.seed[1].id = "t1"
     /\ Len(cast_in.douban) = 1 /\ cast_in.douban[1].DoubanCelebrityId = "d1")
        => /\ Len(cast_out.cast) = 1
           /\ cast_out.cast[1].name = "qiao hamu"
           /\ cast_out.cast[1].character = <<"A", "o">>
           /\ cast_out.cast[1].id = "t1"
           /\ cast_out.cast[1].douban_id = "d1"
           /\ Cardinality(pim) = Cardinality(CastPersonMap)

\* C17: a storage error inside upsert_person does not raise out of the cast
\* pipeline, which goes on with the remaining actors and returns.
C17_StorageErrorContained ==
    (/\ cast_out.processor = "sa"
     /\ cast_in.stop.phase = "storage_error"
     /\ cast_in.stop.k < Len(cast_in.seed))
        => cast_out.status = "returned"

\* ------------------------------------------------------------------------
\* Override files: the item's all.json / series.json ("main") and a mirrored
\* season or episode JSON ("child"), written by _process_item_core_logic
\* (mode "auto") and process_item_with_manual_cast (mode "manual"), and read
\* by the media server at any time.  A file is an inode; a path names one.
\* ------------------------------------------------------------------------
Writers == {1, 2}
\* random.randint(1000, 9999) picks the suffix of the temporary file
TempPaths == {"tmp1", "tmp2"}
Paths == {"main", "child"} \cup TempPaths
NumInodes == 4

FreeInode == [state |-> "free", by |-> 0]

\* open(path, 'w'): truncates the file the path names, or creates one
open_w(files, nodes, path, w) ==
    LET free == {i \in 1..NumInodes : nodes[i].state = "free"}
        i == IF files[path] # 0 THEN files[path]
             ELSE CHOOSE x \in free : \A y \in free : x <= y
    IN [fs |-> [files EXCEPT ![path] = i],
        inodes |-> [nodes EXCEPT ![i] = [state |-> "partial", by |-> w]],
        fd |-> i]

\* json.dump and close through an open file: the file holds the whole JSON
\* when nobody else truncated or wrote it meanwhile and the write succeeds.
dump(nodes, fd, w, ok) ==
    IF ok /\ nodes[fd] = [state |-> "partial", by |-> w]
    THEN [nodes EXCEPT ![fd] = [state |-> "full", by |-> w]]
    ELSE nodes

\* os.replace(src, dst); an inode no path names any more is gone
replace_file(files, nodes, src, dst) ==
    LET old == files[dst]
        moved == [files EXCEPT ![dst] = files[src], ![src] = 0]
    IN [fs |-> moved,
        inodes |-> IF old # 0 /\ old # files[src]
                   THEN [nodes EXCEPT ![old] = FreeInode] ELSE nodes]

\* os.remove(path) when os.path.exists(path)
remove_file(files, nodes, path) ==
    IF files[path] = 0 THEN [fs |-> files, inodes |-> nodes]
    ELSE [fs |-> [files EXCEPT ![path] = 0],
          inodes |-> [nodes EXCEPT ![files[path]] = FreeInode]]

IdleWriter == [pc |-> "idle", mode |-> NULL, tmp |-> NULL, fd |-> 0, episodes |-> FALSE]

InitFiles ==
    /\ BaseIdle /\ PureIdle /\ EditIdle
    /\ \E present \in BOOLEAN :
         /\ fs = [p \in Paths |-> IF present /\ p = "main" THEN 1
                                  ELSE IF present /\ p = "child" THEN 2 ELSE 0]
         /\ inodes = [i \in 1..NumInodes |->
                        IF present /\ i <= 2 THEN [state |-> "full", by |-> 0] ELSE FreeInode]
    /\ writers = [w \in Writers |-> IdleWriter]
    /\ last_read = [path |-> NULL, state |-> NULL]

\* A processing run reaches its file-writing phase.
StartWrite(w) ==
    /\ writers[w].pc = "idle"
    /\ \E mode \in {"auto", "manual"}, episodes \in BOOLEAN :
         writers' = [writers EXCEPT ![w] = [pc |-> "open_tmp", mode |-> mode, tmp |-> NULL,
                                            fd |-> 0, episodes |-> episodes]]
    /\ UNCHANGED <<fs, inodes, last_read, baseVars, pureVars, editVars>>

\* open(temp_json_path, 'w')
OpenTemp(w) ==
    /\ writers[w].pc = "open_tmp"
    /\ \E t \in TempPaths :
         LET r == open_w(fs, inodes, t, w)
         IN /\ fs' = r.fs
            /\ inodes' = r.inodes
            /\ writers' = [writers EXCEPT ![w].pc = "dump_tmp", ![w].tmp = t, ![w].fd = r.fd]
    /\ UNCHANGED <<last_read, baseVars, pureVars, editVars>>

\* json.dump into the temporary file; when it raises, the automatic run
\* removes the temporary file and both runs give the item up
DumpTemp(w) ==
    /\ writers[w].pc = "dump_tmp"
    /\ \E ok \in BOOLEAN :
         LET removed == remove_file(fs, inodes, writers[w].tmp)
         IN IF ok
            THEN /\ inodes' = dump(inodes, writers[w].fd, w, TRUE)
                 /\ fs' = fs
                 /\ writers' = [writers EXCEPT ![w].pc = "replace"]
            ELSE /\ fs' = IF writers[w].mode = "auto" THEN removed.fs ELSE fs
                 /\ inodes' = IF writers[w].mode = "auto" THEN removed.inodes ELSE inodes
                 /\ writers' = [writers EXCEPT ![w].pc = "failed"]
    /\ UNCHANGED <<last_read, baseVars, pureVars, editVars>>

\* os.replace(temp_json_path, override_json_path); FileNotFoundError when
\* the temporary file is gone
ReplaceMain(w) ==
    /\ writers[w].pc = "replace"
    /\ IF fs[writers[w].tmp] = 0
       THEN /\ writers' = [writers EXCEPT ![w].pc = "failed"]
            /\ UNCHANGED <<fs, inodes>>
       ELSE LET r == replace_file(fs, inodes, writers[w].tmp, "main")
            IN /\ fs' = r.fs
               /\ inodes' = r.inodes
               /\ writers' = [writers EXCEPT
                                ![w].pc = IF writers[w].episodes THEN "open_child" ELSE "done"]
    /\ UNCHANGED <<last_read, baseVars, pureVars, editVars>>

\* open(override_child_path, 'w') for a season or episode file
OpenChild(w) ==
    /\ writers[w].pc = "open_child"
    /\ LET r == open_w(fs, inodes, "child", w)
       IN /\ fs' = r.fs
          /\ inodes' = r.inodes
          /\ writers' = [writers EXCEPT ![w].pc = "dump_child", ![w].fd = r.fd]
    /\ UNCHANGED <<last_read, baseVars, pureVars, editVars>>

\* json.dump into the season or episode file; an exception is logged and the
\* run goes on
DumpChild(w) ==
    /\ writers[w].pc = "dump_child"
    /\ \E ok \in BOOLEAN : inodes' = dump(inodes, writers[w].fd, w, ok)
    /\ writers' = [writers EXCEPT ![w].pc = "done"]
    /\ UNCHANGED <<fs, last_read, baseVars, pureVars, editVars>>

\* The media server reads an override file.
ReadOverride ==
    /\ \E p \in {"main", "child"} :
         last_read' = [path |-> p,
                       state |-> IF fs[p] = 0 THEN "none" ELSE inodes[fs[p]].state]
    /\ UNCHANGED <<fs, inodes, writers, baseVars, pureVars, editVars>>

NextFiles ==
    \/ \E w \in Writers :
         \/ StartWrite(w) \/ OpenTemp(w) \/ DumpTemp(w) \/ ReplaceMain(w)
         \/ OpenChild(w) \/ DumpChild(w)
    \/ ReadOverride

SpecFiles == InitFiles /\ [][NextFiles]_vars

\* C13: no reader observes a partially written override JSON, and none is
\* left behind once every run has finished.
C13_NoPartialJson ==
    /\ last_read.state # "partial"
    /\ (\A w \in Writers : writers[w].pc \in {"idle", "done", "failed"}) =>
           \A p \in {"main", "child"} : fs[p] # 0 => inodes[fs[p]].state # "partial"

-----------------------------------------------------------------------------
\* The override JSON of an item (MediaProcessorSA._process_item_core_logic,
\* stages 1 and 2).  A JSON document is its title and its two cast arrays,
\* each present or absent.  The records of the list handed to the cast
\* processing are the objects of the document they were read from, so what is
\* assigned to a record there is assigned in the document too.

voice == <<"(", "pei", "yin", ")">>

\* MediaProcessorSA._format_and_complete_cast_list
format_and_complete_cast_list(cast_list, is_animation) ==
    [idx \in 1..Len(cast_list) |->
        LET actor == cast_list[idx]
            cleaned == clean_character_name_static(StripText(actor.character))
            cleaned_role == IF contains_chinese(cleaned)
                            THEN SelectSeq(cleaned, LAMBDA c : c # " ")
                            ELSE cleaned
            ends_voiced == /\ Len(cleaned_role) >= Len(voice)
                           /\ SubSeq(cleaned_role, Len(cleaned_role) - Len(voice) + 1,
                                     Len(cleaned_role)) = voice
            final_role ==
                IF is_animation
                THEN IF cleaned_role # <<>> /\ ~ends_voiced THEN cleaned_role \o <<" ">> \o voice
                     ELSE IF cleaned_role = <<>> THEN <<"pei", "yin">>
                     ELSE cleaned_role
                ELSE IF cleaned_role # <<>> THEN cleaned_role ELSE <<"yan", "yuan">>
        IN [actor EXCEPT !.character = final_role, !.order = idx - 1]]

\* The key under which final_cast_map holds a record.
key_of(actor) ==
    IF actor.id # NULL THEN <<"id", actor.id>> ELSE <<"name", name_lower(actor.name)>>

\* The records of a list after the cast processing and the formatting have
\* assigned to them in place: a record the cast map holds ends as the
\* formatted record when it is in the final cast, and as the merged record
\* when it was cut off; a record the cast map does not hold is untouched.
assigned_in_place(local_cast_list, douban_candidates, final_cast_perfect) ==
    LET seed_map == final_cast_map(local_cast_list, Len(local_cast_list))
        cast_map == merge_matched(seed_map, douban_candidates)
        held(i) == \E m \in 1..Len(seed_map) :
                      /\ seed_map[m].key = key_of(local_cast_list[i])
                      /\ seed_map[m].value = local_cast_list[i]
                      /\ \A j \in 1..Len(local_cast_list) :
                            (j # i /\ local_cast_list[j] = local_cast_list[i]) => j < i
        merged(i) == cast_map[CHOOSE m \in 1..Len(cast_map) :
                                 cast_map[m].key = key_of(local_cast_list[i])].value
        finals(i) == {j \in 1..Len(final_cast_perfect) :
                         key_of(final_cast_perfect[j]) = key_of(local_cast_list[i])}
    IN [i \in 1..Len(local_cast_list) |->
          IF ~held(i) THEN local_cast_list[i]
          ELSE IF finals(i) # {} THEN final_cast_perfect[CHOOSE j \in finals(i) : TRUE]
          ELSE merged(i)]

\* base.get("credits", {}).get("cast", []) or base.get("casts", {}).get("cast", []) or []
cast_source(base) ==
    IF base.credits.present /\ base.credits.cast # <<>> THEN "credits"
    ELSE IF base.casts.present /\ base.casts.cast # <<>> THEN "casts"
    ELSE "none"

cast_of(base, source) ==
    IF source = "none" THEN <<>> ELSE base[source].cast

\* The document written to the override directory, or no write at all.  A
\* movie's cast list is read from the document that is later copied; a
\* series's list is aggregated from files read again (here series.json alone).
write_override_json(item_type, base_json_data_original, douban_candidates, config_limit, stop_at, is_animation) ==
    LET source == cast_source(base_json_data_original)
        full_tmdb_cast_as_base == cast_of(base_json_data_original, source)
        r == process_cast_list_from_local(CastPersonMap, 3, full_tmdb_cast_as_base,
                                          douban_candidates, config_limit, stop_at, TRUE)
        final_cast_perfect == format_and_complete_cast_list(r.cast, is_animation)
        touched ==
            IF item_type = "Movie" /\ source # "none"
            THEN [base_json_data_original EXCEPT
                    ![source].cast = assigned_in_place(full_tmdb_cast_as_base,
                                                       douban_candidates, final_cast_perfect)]
            ELSE base_json_data_original
        replaced == IF item_type = "Movie" THEN "casts" ELSE "credits"
    IN IF r.status # "returned"
       THEN [written |-> FALSE, json |-> base_json_data_original]
       ELSE [written |-> TRUE,
             json |-> [touched EXCEPT
                         ![replaced] = [present |-> TRUE, cast |-> final_cast_perfect]]]

CastArrays ==
    {[present |-> FALSE, cast |-> <<>>]} \cup
    {[present |-> TRUE, cast |-> c] :
        c \in {q \in UNION {[1..n -> SeedActors] : n \in 0..2} :
                  \A i, j \in 1..Len(q) : q[i] = q[j] => i = j}}

OverrideInputs ==
    [ item_type : {"Movie", "Series"},
      base : [title : {"T"}, credits : CastArrays, casts : CastArrays],
      douban : UNION {[1..n -> DoubanCandidates] : n \in 0..1},
      limit : {0, 1},
      stop : {[phase |-> p, k |-> 0] : p \in {"none", "error"}},
      is_animation : BOOLEAN ]

InitOverride ==
    /\ BaseIdle /\ FilesIdle /\ EditIdle
    /\ call_in \in OverrideInputs
    /\ call_out = [fn |-> NULL, ret |-> <<>>]

WriteOverrideJson ==
    /\ call_out.fn = NULL
    /\ call_out' = [fn |-> "write_override_json",
                    ret |-> write_override_json(call_in.item_type, call_in.base,
                                                call_in.douban, call_in.limit,
                                                call_in.stop, call_in.is_animation)]
    /\ UNCHANGED <<call_in, baseVars, fileVars, editVars>>

NextOverride == WriteOverrideJson

SpecOverride == InitOverride /\ [][NextOverride]_vars

\* C14: the override JSON written for an item equals the source JSON in every
\* field but the replaced cast array (casts.cast of a movie, credits.cast of
\* a series); the other cast array, when the source has one, is unchanged.
C14_OnlyCastReplaced ==
    (call_out.fn = "write_override_json" /\ call_out.ret.written) =>
        LET out == call_out.ret.json
        IN /\ out.title = call_in.base.title
           /\ call_in.item_type = "Movie" => out.credits = call_in.base.credits
           /\ call_in.item_type = "Series" => out.casts = call_in.base.casts

-----------------------------------------------------------------------------
\* The full-library scan: process_full_library of the two processors, one
\* call over the items the media server lists.  envs[i] is what the attempt
\* at the i-th item meets; a stop flag seen during an attempt stays set.

all_items == <<"mv1", "tv1">>

RECURSIVE scan_from(_, _, _, _, _)
scan_from(processor, L, envs, i, attempted) ==
    IF i > Len(all_items)
    THEN [logs |-> L, attempted |-> attempted, raised |-> FALSE]
    ELSE IF i > 1 /\ envs[i - 1].stop # "none"
    THEN \* if self.is_stop_requested(): break
         [logs |-> L, attempted |-> attempted, raised |-> FALSE]
    ELSE IF processor = "sa" /\ all_items[i] \in L.cache
    THEN scan_from(processor, L, envs, i + 1, attempted)
    ELSE LET item_id == all_items[i]
             r == IF processor = "sa" THEN sa_process_single_item(L, item_id, envs[i])
                  ELSE api_process_single_item(L, item_id, FALSE, envs[i])
         IN IF r.returned = "raised"
            THEN \* nothing between the call and the task function catches it
                 [logs |-> r.logs, attempted |-> attempted \cup {item_id}, raised |-> TRUE]
            ELSE scan_from(processor, r.logs, envs, i + 1, attempted \cup {item_id})

process_full_library(processor, L, envs) == scan_from(processor, L, envs, 1, {})

ScanSaEnvs == {env \in SaEnv : env.durable /\ env.refresh_success /\ ~env.low_score}

ScanInputs ==
    [processor : {"sa"}, envs : [1..Len(all_items) -> ScanSaEnvs]]
        \cup [processor : {"api"}, envs : [1..Len(all_items) -> ApiEnv]]

InitScan ==
    /\ BaseIdle /\ FilesIdle /\ EditIdle
    /\ call_in \in ScanInputs
    /\ call_out = [fn |-> NULL, ret |-> <<>>]

ProcessFullLibrary ==
    /\ call_out.fn = NULL
    /\ LET r == process_full_library(call_in.processor, Logs, call_in.envs)
       IN /\ call_out' = [fn |-> "process_full_library",
                          ret |-> [attempted |-> r.attempted, raised |-> r.raised]]
          /\ processed_log' = r.logs.processed
          /\ failed_log' = r.logs.failed
          /\ processed_items_cache' = r.logs.cache
    /\ UNCHANGED <<call_in, last_attempt, identityVars, transVars, taskVars, castVars,
                   fileVars, editVars>>

NextScan == ProcessFullLibrary

SpecScan == InitScan /\ [][NextScan]_vars

\* C15: a failure while one item of a full-library scan is processed does not
\* stop the scan: as long as no stop is requested, every item the scan lists
\* is attempted, whatever the items before it met.
C15_ScanContinues ==
    (/\ call_out.fn = "process_full_library"
     /\ \A i \in 1..Len(all_items) : call_in.envs[i].stop = "none")
        => /\ ~call_out.ret.raised
           /\ call_out.ret.attempted = {all_items[i] : i \in 1..Len(all_items)}

-----------------------------------------------------------------------------
\* One Phase A batch of enrich_all_actor_aliases_task on its own: call_in
\* holds what the fetches of the batch report and the order in which the
\* found ones complete.

PhaseARow(m, name, tmdb, imdb, sync) ==
    [map_id |-> m, primary_name |-> name, emby_person_id |-> NULL, tmdb_person_id |-> tmdb,
     imdb_id |-> imdb, douban_celebrity_id |-> NULL, last_synced_at |-> sync]

\* Maps with up to two rows that know a TMDb id, synced lately or not, and a
\* row that already holds the IMDb id a fetch can report.
PhaseAMaps ==
    {rows \in SUBSET ({PhaseARow(1, "A", "T1", NULL, sync) : sync \in SyncStamps}
                        \cup {PhaseARow(2, "B", "T2", NULL, sync) : sync \in SyncStamps}
                        \cup {PhaseARow(3, "C", NULL, "I1", NULL)}) :
        /\ MapIdsUnique(rows)
        /\ Needy(rows, "tmdb_person_id") # {}}

InitPhaseA ==
    /\ LogsIdle /\ TransIdle /\ TasksIdle /\ CastIdle /\ FilesIdle /\ EditIdle
    /\ pim \in PhaseAMaps
    /\ next_id = 4 /\ last_ret = 0 /\ cands = <<>> /\ applied = <<>>
    /\ \E resp \in [{r.tmdb_person_id : r \in Needy(pim, "tmdb_person_id")} -> TmdbResponses] :
         \E order \in Orders({t \in DOMAIN resp : resp[t] \in ImdbIds}) :
            call_in = [resp |-> resp, order |-> order]
    /\ call_out = [fn |-> NULL, ret |-> <<>>]

EnrichPhaseA ==
    /\ call_out.fn = NULL
    /\ LET a == PhaseABatch(pim, next_id, call_in.resp, call_in.order)
       IN /\ pim' = a.rows
          /\ next_id' = a.next_id
          /\ call_out' = [fn |-> "phase_a", ret |-> <<>>]
    /\ UNCHANGED <<call_in, last_ret, cands, applied, logVars, transVars, taskVars, castVars,
                   fileVars, editVars>>

NextPhaseA == EnrichPhaseA

SpecPhaseA == InitPhaseA /\ [][NextPhaseA]_vars

\* C18: after Phase A has processed a batch, every found row carries the
\* fetched IMDb id, every not_found row is gone, and every row of the batch
\* that still exists has last_synced_at set to now, also when its fetch
\* failed and also when the batch found no IMDb id and no missing person.
C18_BatchStamped ==
    call_out.fn = "phase_a" =>
        \A t \in DOMAIN call_in.resp :
            LET left == {r \in pim : r.tmdb_person_id = t}
            IN /\ call_in.resp[t] = "not_found" => left = {}
               /\ \A r \in left :
                    /\ r.last_synced_at = "now"
                    /\ call_in.resp[t] \in ImdbIds => r.imdb_id = call_in.resp[t]

-----------------------------------------------------------------------------
\* tasks.task_auto_subscribe on one collection.  The three sections of the
\* task (native movie collections, custom movie lists, custom series lists)
\* run the same loop over the members stored as JSON in the collection's row.
\* A member is its status, its release date against today ("past": today or
\* earlier, "future", "none": absent or unparsable) and what the subscribe
\* adapter answers for it.

MaxMembers == 3

Members ==
    [status : {"missing", "subscribed", "in_library"},
     release : {"past", "future", "none"},
     accepts : BOOLEAN]

\* health derived from the member statuses
derive_health(members) ==
    IF \E i \in 1..Len(members) : members[i].status = "missing" THEN "has_missing" ELSE "ok"

\* The member loop: stop_after is the number of members gone through before
\* the stop flag is set (MaxMembers + 1: it is never set); the loop breaks at
\* the first member it reaches with the flag set.
RECURSIVE subscribe_loop(_, _, _, _)
subscribe_loop(all_movies, stop_after, i, acc) ==
    IF i > Len(all_movies) \/ i > stop_after THEN acc
    ELSE LET movie == all_movies[i]
             called == movie.status = "missing" /\ movie.release = "past"
             kept == IF called /\ movie.accepts
                     THEN [movie EXCEPT !.status = "subscribed"] ELSE movie
         IN subscribe_loop(all_movies, stop_after, i + 1,
                           [movies_to_keep |-> Append(acc.movies_to_keep, kept),
                            movies_changed |-> acc.movies_changed \/ (called /\ movie.accepts),
                            calls |-> IF called THEN acc.calls \cup {i} ELSE acc.calls])

task_auto_subscribe(enabled, collection, stop_after) ==
    LET selected == collection.health = "has_missing" /\ collection.members # <<>>
        r == subscribe_loop(collection.members, stop_after, 1,
                            [movies_to_keep |-> <<>>, movies_changed |-> FALSE, calls |-> {}])
    IN IF ~enabled \/ stop_after = 0 \/ ~selected
       THEN [collection |-> collection, calls |-> {}]
       ELSE IF r.movies_changed
       THEN [collection |-> [members |-> r.movies_to_keep,
                             health |-> derive_health(r.movies_to_keep)],
             calls |-> r.calls]
       ELSE [collection |-> collection, calls |-> r.calls]

AutoSubInputs ==
    [ enabled : BOOLEAN,
      collection : {[members |-> m, health |-> derive_health(m)] :
                       m \in UNION {[1..n -> Members] : n \in 0..MaxMembers}},
      stop_after : 0..(MaxMembers + 1) ]

InitAutoSub ==
    /\ BaseIdle /\ FilesIdle /\ EditIdle
    /\ call_in \in AutoSubInputs
    /\ call_out = [fn |-> NULL, ret |-> <<>>]

TaskAutoSubscribe ==
    /\ call_out.fn = NULL
    /\ call_out' = [fn |-> "task_auto_subscribe",
                    ret |-> task_auto_subscribe(call_in.enabled, call_in.collection,
                                                call_in.stop_after)]
    /\ UNCHANGED <<call_in, baseVars, fileVars, editVars>>

NextAutoSub == TaskAutoSubscribe

SpecAutoSub == InitAutoSub /\ [][NextAutoSub]_vars

\* C19: the auto-subscribe task calls the subscribe adapter only for members
\* that are missing and released, in a collection that has_missing, and for
\* all of them when it runs to its end; a member whose call succeeded is
\* stored as subscribed; and afterwards the stored health is has_missing
\* exactly when some member of the collection is still missing.
C19_AutoSubscribe ==
    call_out.fn = "task_auto_subscribe" =>
        LET before == call_in.collection.members
            after == call_out.ret.collection
            calls == call_out.ret.calls
            eligible == {i \in 1..Len(before) :
                            /\ call_in.collection.health = "has_missing"
                            /\ before[i].status = "missing" /\ before[i].release = "past"}
            still_missing == {i \in 1..Len(before) :
                                 /\ before[i].status = "missing"
                                 /\ ~(i \in calls /\ before[i].accepts)}
        IN /\ calls \subseteq eligible
           /\ (call_in.enabled /\ call_in.stop_after > MaxMembers) => calls = eligible
           /\ \A i \in calls : before[i].accepts =>
                  (i <= Len(after.members) /\ after.members[i].status = "subscribed")
           /\ (after.health = "has_missing") = (still_missing # {})

-----------------------------------------------------------------------------
\* Manual editing sessions: MediaProcessorSA.get_cast_for_editing opens the
\* editor for an item and process_item_with_manual_cast saves what the editor
\* submits.  session[item] is "none" (never opened), "open", "failed" (the
\* last opening returned None), "abandoned" (the editor was left without
\* saving) or "closed" (a save has returned).

InitEdit ==
    /\ BaseIdle /\ PureIdle /\ FilesIdle
    /\ manual_edit_cache = {}
    /\ session = [item \in Items |-> "none"]
    /\ last_edit = [op |-> NULL, item |-> NULL, ret |-> NULL]

\* get_cast_for_editing: an exception on the way returns None; the cache
\* entry is written once the cast list has been read ("early": the exception
\* comes before that, "late": after it, while the failed_log row is read).
GetCastForEditing(item_id) ==
    \E outcome \in {"ok", "early", "late"} :
        /\ manual_edit_cache' = IF outcome = "early" THEN manual_edit_cache
                                ELSE manual_edit_cache \cup {item_id}
        /\ session' = [session EXCEPT ![item_id] = IF outcome = "ok" THEN "open" ELSE "failed"]
        /\ last_edit' = [op |-> "get_cast_for_editing", item |-> item_id,
                         ret |-> IF outcome = "ok" THEN "response_data" ELSE "None"]
        /\ UNCHANGED <<baseVars, pureVars, fileVars>>

\* The editor page of an open session is left without saving: no request
\* reaches the processor.
AbandonEditing(item_id) ==
    /\ session[item_id] = "open"
    /\ session' = [session EXCEPT ![item_id] = "abandoned"]
    /\ last_edit' = [op |-> "abandon", item |-> item_id, ret |-> NULL]
    /\ UNCHANGED <<manual_edit_cache, baseVars, pureVars, fileVars>>

\* process_item_with_manual_cast: without a cache entry it raises ValueError
\* at once; any exception rolls back and returns False; a run that gets
\* through writes the logs and returns True; the finally clause drops the
\* cache entry in every case.
ProcessItemWithManualCast(item_id) ==
    \E error \in BOOLEAN :
        LET failed == error \/ item_id \notin manual_edit_cache
            logged == log_db_manager(log_db_manager(Logs, "save_to_processed_log", item_id),
                                     "remove_from_failed_log", item_id)
        IN /\ manual_edit_cache' = manual_edit_cache \ {item_id}
           /\ session' = [session EXCEPT ![item_id] = "closed"]
           /\ last_edit' = [op |-> "process_item_with_manual_cast", item |-> item_id,
                            ret |-> IF failed THEN "False" ELSE "True"]
           /\ processed_log' = IF failed THEN processed_log ELSE logged.processed
           /\ failed_log' = IF failed THEN failed_log ELSE logged.failed
           /\ UNCHANGED <<processed_items_cache, last_attempt, identityVars, transVars,
                          taskVars, castVars, pureVars, fileVars>>

\* An attempt of the automatic processor leaves the item in failed_log, from
\* where the review page offers it for editing.
FailForReview(item_id) ==
    /\ item_id \notin failed_log
    /\ failed_log' = log_db_manager(Logs, "save_to_failed_log", item_id).failed
    /\ UNCHANGED <<processed_log, processed_items_cache, last_attempt, identityVars,
                   transVars, taskVars, castVars, extVars>>

NextEdit ==
    \E item_id \in Items :
        \/ GetCastForEditing(item_id)
        \/ AbandonEditing(item_id)
        \/ ProcessItemWithManualCast(item_id)
        \/ FailForReview(item_id)

SpecEdit == InitEdit /\ [][NextEdit]_vars

\* C20: manual_edit_cache holds an entry for an item only while the item's
\* editing session is open: none is left after process_item_with_manual_cast
\* has returned, after the session was abandoned, or after an opening failed.
C20_CacheOnlyWhileOpen ==
    \A item_id \in Items : item_id \in manual_edit_cache => session[item_id] = "open"

-----------------------------------------------------------------------------
\* The formatting of a final cast: actor_utils.format_and_complete_cast_list,
\* the shared function that reads the role-prefix option, and
\* MediaProcessorSA._format_and_complete_cast_list, the method the processor
\* calls on the cast it writes to the override (format_and_complete_cast_list
\* above).  A name is its text without zero-width spaces (clean) and the
\* number of U+200B characters that follow it (zw).

MaxCast == 3

\* list.sort(key=...), stable and ascending; keys[i] is the key of cast[i]
sort_by(cast, keys) ==
    LET rank(i) == 1 + Cardinality({j \in 1..Len(cast) :
                                      keys[j] < keys[i] \/ (keys[j] = keys[i] /\ j < i)})
    IN [p \in 1..Len(cast) |-> cast[CHOOSE i \in 1..Len(cast) : rank(i) = p]]

order_key(cast) == [i \in 1..Len(cast) |-> cast[i].order]

generic_roles == {<<"yan", "yuan">>, <<"pei", "yin">>}

generic_key(cast) ==
    [i \in 1..Len(cast) |->
        (IF cast[i].character \in generic_roles THEN 1000 ELSE 0) + cast[i].order]

\* The name of the record at position p of the sorted list after the
\* same-name pass: the i-th record of a group of equal clean names carries i
\* zero-width spaces, the first one none; a record without a name is skipped.
spaced_name(sorted, p) ==
    LET name == sorted[p].name
        named == name.clean # "" \/ name.zw > 0
        earlier == {q \in 1..(p - 1) :
                       /\ sorted[q].name.clean # "" \/ sorted[q].name.zw > 0
                       /\ sorted[q].name.clean = name.clean}
    IN IF named THEN [clean |-> name.clean, zw |-> Cardinality(earlier)] ELSE name

\* The character of one record in the shared function.
prefixed_role(character, is_animation, add_role_prefix) ==
    LET stripped == StripText(character)
        final_role == IF contains_chinese(stripped)
                      THEN SelectSeq(stripped, LAMBDA c : c # " ") ELSE stripped
        placeholder == IF is_animation THEN <<"pei", "yin">> ELSE <<"yan", "yuan">>
        prefix == IF is_animation THEN <<"pei", " ">> ELSE <<"shi", " ">>
    IN IF final_role = <<>> THEN placeholder
       ELSE IF add_role_prefix /\ final_role \notin generic_roles THEN prefix \o final_role
       ELSE final_role

\* actor_utils.format_and_complete_cast_list
shared_format_and_complete_cast_list(cast_list, is_animation, add_role_prefix) ==
    LET sorted == sort_by(cast_list, order_key(cast_list))
        formatted == [idx \in 1..Len(sorted) |->
                        [sorted[idx] EXCEPT
                           !.name = spaced_name(sorted, idx),
                           !.character = prefixed_role(@, is_animation, add_role_prefix),
                           !.order = idx - 1]]
        perfect_cast == sort_by(formatted, generic_key(formatted))
    IN [new_idx \in 1..Len(perfect_cast) |-> [perfect_cast[new_idx] EXCEPT !.order = new_idx - 1]]

CastIds == <<"t1", "t2", "t3">>

FormatRecords ==
    [name : {[clean |-> "bob", zw |-> 0], [clean |-> "bob", zw |-> 1], [clean |-> "", zw |-> 0]},
     character : {<<>>, <<"zh", "zh">>, <<"yan", "yuan">>},
     order : {-1, 0, 1}]

\* Cast lists of up to max_cast records with different TMDb ids.
FormatInputs(max_cast) ==
    [ cast_list : UNION {{[i \in 1..n |-> [id |-> CastIds[i], name |-> f[i].name,
                                           character |-> f[i].character,
                                           order |-> f[i].order]] :
                             f \in [1..n -> FormatRecords]} : n \in 0..max_cast},
      is_animation : BOOLEAN,
      add_role_prefix : BOOLEAN ]

InitFormat ==
    /\ BaseIdle /\ FilesIdle /\ EditIdle
    /\ call_in \in FormatInputs(MaxCast)
    /\ call_out = [fn |-> NULL, ret |-> <<>>]

\* The shared function is called on the cast.
FormatShared ==
    /\ call_out.fn = NULL
    /\ call_out' = [fn |-> "format_and_complete_cast_list",
                    ret |-> shared_format_and_complete_cast_list(
                                call_in.cast_list, call_in.is_animation,
                                call_in.add_role_prefix)]
    /\ UNCHANGED <<call_in, baseVars, fileVars, editVars>>

\* The processor formats the cast it is about to write to the override.
FormatSa ==
    /\ call_out.fn = NULL
    /\ call_out' = [fn |-> "_format_and_complete_cast_list",
                    ret |-> format_and_complete_cast_list(call_in.cast_list,
                                                          call_in.is_animation)]
    /\ UNCHANGED <<call_in, baseVars, fileVars, editVars>>

NextFormat == FormatShared \/ FormatSa

SpecFormat == InitFormat /\ [][NextFormat]_vars

\* The record of the formatted cast that was the i-th of the list passed in.
Formatted(i) ==
    call_out.ret[CHOOSE p \in 1..Len(call_out.ret) : call_out.ret[p].id = CastIds[i]]

\* C21: for an animation item with the role-prefix option on, in the cast
\* the processor writes to the override a Chinese character name has the
\* voice prefix and a space put before it, and an empty character becomes
\* the voice placeholder without a prefix.
C21_VoicePrefix ==
    (/\ call_out.fn = "_format_and_complete_cast_list"
     /\ call_in.is_animation /\ call_in.add_role_prefix)
        => \A i \in 1..Len(call_in.cast_list) :
              /\ call_in.cast_list[i].character = <<"zh", "zh">>
                    => Formatted(i).character = <<"pei", " ", "zh", "zh">>
              /\ call_in.cast_list[i].character = <<>>
                    => Formatted(i).character = <<"pei", "yin">>

\* C22: in a final cast no two records have the same name string: among the
\* records whose names are equal without their zero-width spaces, taken in
\* the order of the cast, the first has the name alone and the i-th later one
\* has it followed by exactly i zero-width spaces.
C22_NamesDistinct ==
    call_out.fn # NULL =>
        LET sorted == sort_by(call_in.cast_list, order_key(call_in.cast_list))
            out(p) == call_out.ret[CHOOSE q \in 1..Len(call_out.ret) :
                                      call_out.ret[q].id = sorted[p].id]
        IN /\ \A p, q \in 1..Len(call_out.ret) :
                 call_out.ret[p].name = call_out.ret[q].name => p = q
           /\ \A p \in 1..Len(sorted) :
                 LET earlier == {q \in 1..(p - 1) :
                                    sorted[q].name.clean = sorted[p].name.clean}
                 IN earlier # {} =>
                       out(p).name = [clean |-> sorted[p].name.clean,
                                      zw |-> Cardinality(earlier)]

-----------------------------------------------------------------------------
\* The quality score of a processed item: actor_utils.
\* evaluate_cast_processing_quality and the call the processor makes of it.
\* Scores are kept exact: an actor's score in halves of a point, the item's
\* score as a fraction, the value returned in tenths of a point.

MaxFinal == 11
MaxOriginal == 14

\* The score of one actor, in halves of a point.
actor_score(actor_data) ==
    LET actor_name == actor_data.name
        actor_role == actor_data.character
        is_placeholder ==
            \/ Len(actor_role) >= 4 /\ SubSeq(actor_role, Len(actor_role) - 3, Len(actor_role)) = voice
            \/ actor_role \in generic_roles
        name_score == IF contains_chinese(actor_name) THEN 10
                      ELSE IF actor_name # <<>> THEN 2 ELSE 0
        role_score == IF contains_chinese(actor_role) /\ ~is_placeholder THEN 10
                      ELSE IF contains_chinese(actor_role) THEN 5
                      ELSE IF actor_role # <<>> THEN 1 ELSE 0
    IN IF name_score + role_score > 20 THEN 20 ELSE name_score + role_score

RECURSIVE accumulated_score(_)
accumulated_score(final_cast) ==
    IF final_cast = <<>> THEN 0
    ELSE actor_score(Head(final_cast)) + accumulated_score(Tail(final_cast))

\* round(x, 1) of the fraction num / den, in tenths.  The float the code
\* rounds is the nearest one to the fraction, so a fraction that lies exactly
\* between two tenths may come out as either of them.
round_tenths(num, den) ==
    LET q == (10 * num) \div den
        r == (10 * num) % den
    IN IF 2 * r < den THEN {q}
       ELSE IF 2 * r > den THEN {q + 1}
       ELSE {q, q + 1}

\* evaluate_cast_processing_quality: the values it can return, in tenths.
\* expected_final_count is [given |-> FALSE] for None.
evaluate_cast_processing_quality(final_cast, original_cast_count, expected_final_count, is_animation) ==
    LET total_actors == Len(final_cast)
        halves == accumulated_score(final_cast)
    IN IF final_cast = <<>> THEN (IF is_animation THEN {70} ELSE {0})
       ELSE IF is_animation THEN round_tenths(halves, 2 * total_actors)
       ELSE IF total_actors < 10
       THEN round_tenths(halves * total_actors, 2 * total_actors * 10)
       ELSE IF expected_final_count.given
       THEN IF 10 * total_actors < 8 * expected_final_count.count
            THEN round_tenths(halves * total_actors,
                              2 * total_actors * expected_final_count.count)
            ELSE round_tenths(halves, 2 * total_actors)
       ELSE IF 10 * total_actors < 8 * original_cast_count
       THEN round_tenths(halves * total_actors, 2 * total_actors * original_cast_count)
       ELSE round_tenths(halves, 2 * total_actors)

ScoredActors ==
    [name : {<<>>, <<"b", "o", "b">>, <<"zh", "zh">>},
     character : {<<>>, <<"A", "o">>, <<"yan", "yuan">>,
                  <<"zh", "zh", " ">> \o voice, <<"zh", "zh">>}]

\* Casts of up to max_final actors: some number of one actor, then possibly
\* one actor without a name and a role.
ScoredCasts(max_final) ==
    {[i \in 1..(n + m) |-> IF i <= n THEN a ELSE [name |-> <<>>, character |-> <<>>]] :
        a \in ScoredActors, n \in 0..(max_final - 1), m \in 0..1}

Counts == {0} \cup (9..MaxOriginal)

QualityInputs(max_final) ==
    [ final_cast : ScoredCasts(max_final),
      original_cast_count : Counts,
      expected_final_count : {[given |-> FALSE, count |-> 0]}
                               \cup [given : {TRUE}, count : Counts],
      is_animation : BOOLEAN ]

InitQuality ==
    /\ BaseIdle /\ FilesIdle /\ EditIdle
    /\ call_in \in QualityInputs(MaxFinal)
    /\ call_out = [fn |-> NULL, ret |-> <<>>]

\* The function is called with the arguments drawn.
EvaluateQuality ==
    /\ call_out.fn = NULL
    /\ \E score \in evaluate_cast_processing_quality(
                        call_in.final_cast, call_in.original_cast_count,
                        call_in.expected_final_count, call_in.is_animation) :
           call_out' = [fn |-> "evaluate_cast_processing_quality", ret |-> score]
    /\ UNCHANGED <<call_in, baseVars, fileVars, editVars>>

\* _process_item_core_logic scores the cast it has written: the expected
\* count it passes is the length of that cast.
ScoreProcessedItem ==
    /\ call_out.fn = NULL
    /\ \E score \in evaluate_cast_processing_quality(
                        call_in.final_cast, call_in.original_cast_count,
                        [given |-> TRUE, count |-> Len(call_in.final_cast)],
                        call_in.is_animation) :
           call_out' = [fn |-> "_process_item_core_logic", ret |-> score]
    /\ UNCHANGED <<call_in, baseVars, fileVars, editVars>>

NextQuality == EvaluateQuality \/ ScoreProcessedItem

SpecQuality == InitQuality /\ [][NextQuality]_vars

\* C23: for a non-animation item of at least 10 actors whose count is not
\* below 0.8 times a supplied expected count, the score returned is the
\* average multiplied by final_count / original_count whenever final_count
\* is below 0.8 times original_count.
C23_OriginalPenalty ==
    LET total == Len(call_in.final_cast)
        expected == IF call_out.fn = "_process_item_core_logic"
                    THEN [given |-> TRUE, count |-> total]
                    ELSE call_in.expected_final_count
    IN (/\ call_out.fn # NULL
        /\ ~call_in.is_animation
        /\ total >= 10
        /\ expected.given /\ 10 * total >= 8 * expected.count
        /\ 10 * total < 8 * call_in.original_cast_count)
          => call_out.ret \in round_tenths(
                                  accumulated_score(call_in.final_cast) * total,
                                  2 * total * call_in.original_cast_count)

-----------------------------------------------------------------------------
\* One call of ActorDBManager.upsert_person on a map of up to MaxRows rows in
\* which every external ID is held by one row.  call_in keeps the rows the
\* call found and the candidate it was given.

MaxRows == 2

RowBodies ==
    [primary_name : {"A", "B"}, tmdb_person_id : TmdbIds \cup {NULL},
     emby_person_id : EmbyIds \cup {NULL}, imdb_id : ImdbIds \cup {NULL},
     douban_celebrity_id : DoubanIds \cup {NULL}]

UpsertTables(max_rows) ==
    {{[map_id |-> m, primary_name |-> t[m].primary_name,
       emby_person_id |-> t[m].emby_person_id, tmdb_person_id |-> t[m].tmdb_person_id,
       imdb_id |-> t[m].imdb_id, douban_celebrity_id |-> t[m].douban_celebrity_id,
       last_synced_at |-> NULL] : m \in DOMAIN t} :
        t \in {u \in UNION {[S -> RowBodies] : S \in SUBSET (1..max_rows)} :
                  \A i, j \in DOMAIN u : \A k \in IdFieldSet :
                      (Truthy(u[i][k]) /\ u[i][k] = u[j][k]) => i = j}}

\* Candidates whose name and ids need no trimming.
UpsertCandidates ==
    [name : {" ", "A"}, emby_id : EmbyIds \cup {NULL}, tmdb_id : TmdbIds \cup {NULL},
     imdb_id : ImdbIds \cup {NULL}, douban_id : DoubanIds \cup {NULL}]

InitUpsert ==
    /\ LogsIdle /\ TransIdle /\ TasksIdle /\ CastIdle /\ FilesIdle /\ EditIdle
    /\ cands = <<>> /\ applied = <<>>
    /\ next_id = MaxRows + 1 /\ last_ret = 0
    /\ call_out = [fn |-> NULL, ret |-> <<>>]
    /\ \E rows \in UpsertTables(MaxRows), person_data \in UpsertCandidates :
          /\ call_in = [rows |-> rows, person_data |-> person_data]
          /\ pim = rows

UpsertOnce ==
    /\ call_out.fn = NULL
    /\ LET res == upsert_person(pim, next_id, call_in.person_data)
       IN /\ pim' = res.rows
          /\ next_id' = res.next_id
          /\ last_ret' = res.ret
          /\ call_out' = [fn |-> "upsert_person", ret |-> res.ret]
    /\ UNCHANGED <<call_in, cands, applied, logVars, transVars, taskVars, castVars,
                   fileVars, editVars>>

NextUpsert == UpsertOnce

SpecUpsert == InitUpsert /\ [][NextUpsert]_vars

\* The candidate as the call normalises it, the columns it has an ID for,
\* the rows one of its IDs is found in, and the rows of its name.
Candidate == data_to_process(call_in.person_data)
CandidateIds(d) == {k \in IdFieldSet : d[k] # NULL}
IdHits(d) == {r \in call_in.rows : \E k \in IdFieldSet : d[k] # NULL /\ r[k] = d[k]}
SameName(d) == {r \in call_in.rows : r.primary_name = d.primary_name}
Idless(r) == \A k \in IdFieldSet : r[k] = NULL

\* C24: when the candidate's IDs match one or more rows, upsert_person
\* returns the smallest matching map_id, that row is still in the map and
\* every other matching row has been deleted when the call returns.
C24_SmallestSurvives ==
    call_out.fn = "upsert_person" =>
        LET hits == IdHits(Candidate)
            survivor == MinOf(MapIds(hits))
        IN hits # {} =>
              /\ last_ret = survivor
              /\ call_out.ret = survivor
              /\ \A m \in MapIds(hits) : (m \in MapIds(pim)) = (m = survivor)
              /\ \A r \in call_in.rows \ hits : r \in pim

\* The candidate's IDs were found in MaxRows rows, which are now one.
C24_Witness ==
    /\ call_out.fn = "upsert_person"
    /\ Cardinality(IdHits(Candidate)) = MaxRows
    /\ Cardinality(pim) = 1

\* C25: in an ID-based merge the surviving row keeps every external ID it
\* had; a column of it that was null holds afterwards null or a non-null
\* value of the candidate or of a merged row; and its primary_name is the
\* candidate's name whenever the candidate has one.
C25_SurvivorKeepsIds ==
    call_out.fn = "upsert_person" =>
        LET d == Candidate
            hits == IdHits(d)
            before == RowById(call_in.rows, MinOf(MapIds(hits)))
            after == RowById(pim, before.map_id)
        IN hits # {} =>
              /\ \A k \in IdFieldSet :
                    IF before[k] # NULL THEN after[k] = before[k]
                    ELSE after[k] \in {NULL, d[k]} \cup {r[k] : r \in hits \ {before}}
              /\ d.primary_name # "" => after.primary_name = d.primary_name
              /\ d.primary_name = "" => after.primary_name = before.primary_name
              /\ after.last_synced_at = before.last_synced_at

\* The survivor had an ID the candidate gives another value for, took one
\* null column from the candidate and one from a merged row, and was renamed.
C25_Witness ==
    /\ call_out.fn = "upsert_person"
    /\ LET d == Candidate
           hits == IdHits(d)
           before == RowById(call_in.rows, MinOf(MapIds(hits)))
           after == RowById(pim, before.map_id)
       IN /\ Cardinality(hits) >= 2
          /\ \E k \in IdFieldSet : before[k] # NULL /\ d[k] \notin {NULL, before[k]}
          /\ \E k \in IdFieldSet : before[k] = NULL /\ d[k] # NULL /\ after[k] = d[k]
          /\ \E k \in IdFieldSet : before[k] = NULL /\ d[k] = NULL /\ after[k] # NULL
          /\ before.primary_name = "B" /\ after.primary_name = "A"

\* C26: with no ID hit and a non-empty name, a candidate that carries IDs
\* gives them to the first same-name row without an external ID and to no
\* other row; a same-name row that has an external ID is then never
\* modified; and when there is no row to fuse with (for a candidate with
\* IDs no same-name row without IDs, for one without IDs no same-name row)
\* a new row with the candidate's fields is inserted.
C26_NameFuse ==
    call_out.fn = "upsert_person" =>
        LET d == Candidate
            ids == CandidateIds(d)
            fuseable == IF ids = {} THEN SameName(d)
                        ELSE {r \in SameName(d) : Idless(r)}
            first == RowById(call_in.rows, MinOf(MapIds(fuseable)))
            fused == [k \in DOMAIN first |-> IF k \in ids THEN d[k] ELSE first[k]]
            inserted == pim \ call_in.rows
        IN (IdHits(d) = {} /\ d.primary_name # "") =>
              /\ ids # {} => \A r \in SameName(d) : ~Idless(r) => r \in pim
              /\ fuseable # {} =>
                    /\ call_out.ret = first.map_id
                    /\ pim = (call_in.rows \ {first}) \cup {fused}
              /\ fuseable = {} =>
                    /\ call_in.rows \subseteq pim
                    /\ Cardinality(inserted) = 1
                    /\ \A r \in inserted :
                          /\ r.map_id = call_out.ret /\ r.map_id \notin MapIds(call_in.rows)
                          /\ r.primary_name = d.primary_name
                          /\ \A k \in IdFieldSet : r[k] = d[k]

\* Of the rows of the candidate's name the first has an ID and was left
\* alone, and the second, without IDs, took the candidate's.
C26_Witness ==
    /\ call_out.fn = "upsert_person"
    /\ LET d == Candidate
       IN /\ IdHits(d) = {} /\ CandidateIds(d) # {}
          /\ Cardinality(SameName(d)) = MaxRows
    /\ ~Idless(RowById(call_in.rows, 1)) /\ Idless(RowById(call_in.rows, 2))
    /\ call_out.ret = 2
    /\ RowById(pim, 1) = RowById(call_in.rows, 1)
    /\ ~Idless(RowById(pim, 2))

-----------------------------------------------------------------------------
\* The overflow step of MediaProcessorSA._process_cast_list_from_local, under
\* SpecCast: the candidate "dan" has the Douban id d2, which the map holds in
\* the row of TMDb id t9, and no seed record has that name or that id.

\* C27: when the seed has fewer records than the limit and "dan" is the one
\* Douban candidate, the cast returned has a record with TMDb id t9, Douban
\* id d2, the candidate's name and role, and order -1.
C27_Promoted ==
    (/\ cast_out.processor = "sa"
     /\ cast_out.status = "returned"
     /\ cast_in.limit > 0 /\ Len(cast_in.seed) < cast_in.limit
     /\ Len(cast_in.douban) = 1 /\ cast_in.douban[1].DoubanCelebrityId = "d2")
        => \E i \in 1..Len(cast_out.cast) :
              /\ cast_out.cast[i].id = "t9"
              /\ cast_out.cast[i].douban_id = "d2"
              /\ cast_out.cast[i].name = "dan"
              /\ cast_out.cast[i].character = <<"zh", "zh">>
              /\ cast_out.cast[i].order = -1

\* C28: when the AI translator is disabled, raises or returns nothing, the
\* cast processor goes through the fallback engines and the processing of
\* the cast still completes: with no stop requested and no other failure it
\* returns a cast, in which a text that no engine translates is the
\* original one.
C28_FallbackCompletes ==
    (/\ cast_out.processor = "sa"
     /\ ~cast_in.ai
     /\ cast_in.stop.phase = "none")
        => /\ cast_out.status = "returned"
           /\ \A j \in 1..Len(cast_out.cast) :
                 \/ \E i \in 1..Len(cast_in.seed) : cast_out.cast[j].name = cast_in.seed[i].name
                 \/ \E i \in 1..Len(cast_in.douban) : cast_out.cast[j].name = cast_in.douban[i].Name

-----------------------------------------------------------------------------
\* One Phase A batch from the answers of TMDb: what get_person_details_tmdb
\* does for each actor of the batch, what fetch_tmdb_details_for_actor makes
\* of it, and when the stop flag is set or the time budget runs out.

\* For one actor get_person_details_tmdb returns details with an IMDb id,
\* returns details without one ("none"), returns nothing ("empty"), raises
\* TMDbResourceNotFound ("404") or raises TMDbAPIError ("api_error").
TmdbAnswers == ImdbIds \cup {"none", "empty", "404", "api_error"}

fetch_tmdb_details_for_actor(answer) ==
    CASE answer \in ImdbIds -> answer
      [] answer = "none" -> "none"
      [] answer = "empty" -> "not_found"
      [] answer = "404" -> "not_found"
      [] answer = "api_error" -> "failed"

\* "before": the stop flag is set, or the budget has run out, when the loop
\* over the batches reaches this batch; "during": the flag is set while the
\* fetches of the batch complete; "none": neither happens.
BatchStops == {"none", "before", "during"}

enrich_batch(rows, nid, answers, order, stop_at) ==
    LET resp == [t \in DOMAIN answers |-> fetch_tmdb_details_for_actor(answers[t])]
        a == PhaseABatch(rows, nid, resp, order)
    IN CASE stop_at = "before" -> [rows |-> rows, next_id |-> nid, end |-> "break"]
         [] stop_at = "during" -> [rows |-> rows, next_id |-> nid, end |-> "InterruptedError"]
         [] OTHER -> [rows |-> a.rows, next_id |-> a.next_id, end |-> "batch_done"]

InitBatch ==
    /\ LogsIdle /\ TransIdle /\ TasksIdle /\ CastIdle /\ FilesIdle /\ EditIdle
    /\ pim \in PhaseAMaps
    /\ next_id = 4 /\ last_ret = 0 /\ cands = <<>> /\ applied = <<>>
    /\ \E answers \in [{r.tmdb_person_id : r \in Needy(pim, "tmdb_person_id")} -> TmdbAnswers],
          stop_at \in BatchStops :
         \E order \in Orders({t \in DOMAIN answers : answers[t] \in ImdbIds}) :
            call_in = [rows |-> pim, answers |-> answers, order |-> order, stop |-> stop_at]
    /\ call_out = [fn |-> NULL, ret |-> <<>>]

EnrichBatch ==
    /\ call_out.fn = NULL
    /\ LET a == enrich_batch(pim, next_id, call_in.answers, call_in.order, call_in.stop)
       IN /\ pim' = a.rows
          /\ next_id' = a.next_id
          /\ call_out' = [fn |-> "enrich_batch", ret |-> a.end]
    /\ UNCHANGED <<call_in, last_ret, cands, applied, logVars, transVars, taskVars, castVars,
                   fileVars, editVars>>

NextBatch == EnrichBatch

SpecBatch == InitBatch /\ [][NextBatch]_vars

\* C29: Phase A deletes the row of a TMDb id from person_identity_map only
\* when TMDb answered 404 for that id: after an empty answer, an API error
\* or details without an IMDb id a row with that TMDb id is still there.
C29_DeletedOnly404 ==
    call_out.fn = "enrich_batch" =>
        \A t \in DOMAIN call_in.answers :
            call_in.answers[t] \in {"empty", "api_error", "none"}
                => \E r \in pim : r.tmdb_person_id = t

\* C30: a stop signal or the end of the time budget ends Phase A between
\* batches only: the batch is either not started, and the map is as it was,
\* or all of it is applied: every IMDb id found is in the map, in the row of
\* its TMDb id if that row is still there, and every row TMDb answered 404
\* for is gone.
C30_BatchNotAbandoned ==
    call_out.fn = "enrich_batch" =>
        \/ call_out.ret = "break" /\ pim = call_in.rows
        \/ /\ call_out.ret = "batch_done"
           /\ \A t \in DOMAIN call_in.answers :
                 /\ call_in.answers[t] \in ImdbIds =>
                       /\ \E r \in pim : r.imdb_id = call_in.answers[t]
                       /\ \A r \in pim : r.tmdb_person_id = t => r.imdb_id = call_in.answers[t]
                 /\ call_in.answers[t] = "404" => \A r \in pim : r.tmdb_person_id # t

-----------------------------------------------------------------------------
\* The steps of one item in MediaProcessorSA._process_item_core_logic, in the
\* order the method takes them.  call_in says what the attempt meets:
\* where the stop flag is first seen set, whether the item has a TMDb id,
\* its type, whether its cached JSON can be read, whether the cast
\* processing or the write of the override file raises, whether images are
\* synced, what the refresh call returns and how the cast scores.

ItemEnv ==
    [stop : {"none", "entry", "api_track", "cast", "images", "scoring"},
     tmdb_id : BOOLEAN,
     type : {"Movie", "Series", "Other"},
     base_json : BOOLEAN,
     cast_error : BOOLEAN,
     write_fails : BOOLEAN,
     sync_images : BOOLEAN,
     refresh_success : BOOLEAN,
     low_score : BOOLEAN]

\* MediaProcessorSA._process_item_core_logic as the list of its steps.
core_logic_steps(env) ==
    LET interrupted == <<"rollback", "return_false">>
        exception == <<"rollback", "failed_log_exception", "return_false">>
        cast == <<"match", "truncate", "translate", "format">>
        written == cast \o <<"write_override">>
        images == IF env.sync_images THEN <<"download_images">> ELSE <<>>
        scored == written \o images \o <<"score", "refresh">>
    IN IF env.stop = "entry" THEN <<"return_false">>
       ELSE <<"begin", "api_track">> \o
            (IF env.stop = "api_track" THEN interrupted
             ELSE IF ~env.tmdb_id THEN <<"commit", "return_false">>
             ELSE IF ~env.base_json
             THEN <<"failed_log_file_missing", "commit", "return_false">>
             ELSE IF env.type = "Other" THEN <<"commit", "return_false">>
             ELSE IF env.stop = "cast" THEN <<"match">> \o interrupted
             ELSE IF env.cast_error THEN <<"match">> \o exception
             ELSE IF env.write_fails THEN cast \o <<"remove_temp">> \o exception
             ELSE IF env.sync_images /\ env.stop = "images" THEN written \o interrupted
             ELSE IF env.stop \in {"images", "scoring"} THEN written \o images \o interrupted
             ELSE IF ~env.refresh_success THEN scored \o exception
             ELSE IF env.low_score
             THEN scored \o <<"refresh_success", "failed_log_low_score", "commit",
                              "return_true">>
             ELSE scored \o <<"refresh_success", "processed_log", "remove_from_failed_log",
                              "commit", "return_true">>)

InitItem ==
    /\ BaseIdle /\ FilesIdle /\ EditIdle
    /\ call_in \in ItemEnv
    /\ call_out = [fn |-> NULL, ret |-> <<>>]

\* The method with the log entry written as soon as the override file is.
ProcessItemLogFirst ==
    /\ call_out.fn = NULL
    /\ LET steps == core_logic_steps(call_in)
           at == {i \in 1..Len(steps) : steps[i] = "write_override"}
           i == CHOOSE x \in at : TRUE
       IN call_out' = [fn |-> "_process_item_core_logic",
                       ret |-> IF at = {} THEN steps
                               ELSE SubSeq(steps, 1, i) \o <<"processed_log">>
                                        \o SubSeq(steps, i + 1, Len(steps))]
    /\ UNCHANGED <<call_in, baseVars, fileVars, editVars>>

ProcessItemCoreLogic ==
    /\ call_out.fn = NULL
    /\ call_out' = [fn |-> "_process_item_core_logic", ret |-> core_logic_steps(call_in)]
    /\ UNCHANGED <<call_in, baseVars, fileVars, editVars>>

NextItem == ProcessItemCoreLogic

SpecItem == InitItem /\ [][NextItem]_vars

\* Step names and positions in the attempt made.
Before(steps, a, i) == \E j \in 1..(i - 1) : steps[j] = a
Did(a) == \E i \in 1..Len(call_out.ret) : call_out.ret[i] = a
LogSteps ==
    {"processed_log", "failed_log_low_score", "failed_log_file_missing",
     "failed_log_exception"}

\* C31 as stated: the cast is matched, truncated, translated and formatted
\* before the override file is written, the refresh is requested only after
\* the override file is written, and every processed_log or failed_log
\* entry is written only after the refresh returned success.
C31_Original ==
    call_out.fn = "_process_item_core_logic" =>
        LET steps == call_out.ret
        IN \A i \in 1..Len(steps) :
              /\ steps[i] = "write_override" =>
                    \A a \in {"match", "truncate", "translate", "format"} : Before(steps, a, i)
              /\ steps[i] = "refresh" => Before(steps, "write_override", i)
              /\ steps[i] \in LogSteps => Before(steps, "refresh_success", i)

\* C31: the cast is matched, truncated, translated and formatted, in that
\* order, before the override file is written; the refresh is requested only
\* after the override file is written; the processed_log entry and the
\* failed_log entry of a low score are written only after the refresh
\* returned success; the failed_log entry of an unreadable cache file or of
\* an exception is written in an attempt whose refresh did not succeed.
C31_StepOrder ==
    call_out.fn = "_process_item_core_logic" =>
        LET steps == call_out.ret
        IN \A i \in 1..Len(steps) :
              /\ steps[i] = "write_override" =>
                    /\ i > 4
                    /\ SubSeq(steps, i - 4, i - 1) = <<"match", "truncate", "translate", "format">>
              /\ steps[i] = "refresh" => Before(steps, "write_override", i)
              /\ steps[i] \in {"processed_log", "failed_log_low_score"}
                    => Before(steps, "refresh_success", i)
              /\ steps[i] \in {"failed_log_file_missing", "failed_log_exception"}
                    => ~Did("refresh_success")

\* An attempt wrote the override file and asked for the refresh, which
\* failed, and logged the item as failed.
C31_Witness ==
    /\ call_out.fn = "_process_item_core_logic"
    /\ Did("write_override") /\ Did("refresh") /\ ~Did("refresh_success")
    /\ Did("failed_log_exception")

\* C34: when an attempt ends in a rollback, no override file written by it
\* is left in place: it wrote none, or removed it afterwards.
C34_NoFileAfterRollback ==
    (call_out.fn = "_process_item_core_logic" /\ Did("rollback")) =>
        LET steps == call_out.ret
        IN \A i \in 1..Len(steps) :
              steps[i] = "write_override" =>
                  \E j \in (i + 1)..Len(steps) : steps[j] = "remove_override"

-----------------------------------------------------------------------------
\* C32: task_auto_subscribe neither removes nor reorders members, also when
\* it is stopped partway: the member list it leaves stored has the members
\* that were read, in their order, with nothing but status fields changed.
C32_MembersKept ==
    call_out.fn = "task_auto_subscribe" =>
        LET before == call_in.collection.members
            after == call_out.ret.collection.members
        IN /\ Len(after) = Len(before)
           /\ \A i \in 1..Len(before) :
                  after[i] = [before[i] EXCEPT !.status = after[i].status]

-----------------------------------------------------------------------------
\* C33: a stop signal is never lost: when signal_stop has been called after
\* a full scan was submitted and before process_full_library has read the
\* flag at the head of its loop, the steps of the scan up to there leave the
\* flag set, and the loop goes to no item.
C33_StopNotLost ==
    [][(/\ running = <<"full-scan">> /\ after_stop >= 0 /\ stop
        /\ pc \in {"start", "libs", "movies", "series", "loop"} /\ ~observed
        /\ pc' # pc)
          => (stop' /\ pc' \notin {"skip", "item"})]_vars

-----------------------------------------------------------------------------
\* Two standard scans on one MediaProcessorSA instance: the scan of SpecScan,
\* then the scan that task_process_full_library starts next, with the tables
\* and the instance's processed_items_cache as the first one left them.

RescanEnvs == {env \in ScanSaEnvs : env.stop = "none" /\ env.details /\ env.tmdb_id}

InitRescan ==
    /\ BaseIdle /\ FilesIdle /\ EditIdle
    /\ call_in \in [processor : {"sa"}, envs : [1..Len(all_items) -> ScanSaEnvs],
                    again : [1..Len(all_items) -> RescanEnvs]]
    /\ call_out = [fn |-> NULL, ret |-> <<>>]

\* task_process_full_library, the second time
StandardScanAgain ==
    /\ call_out.fn = "process_full_library"
    /\ LET r == process_full_library("sa", Logs, call_in.again)
       IN /\ call_out' = [fn |-> "task_process_full_library",
                          ret |-> [attempted |-> r.attempted, raised |-> r.raised,
                                   logged |-> processed_log]]
          /\ processed_log' = r.logs.processed
          /\ failed_log' = r.logs.failed
          /\ processed_items_cache' = r.logs.cache
    /\ UNCHANGED <<call_in, last_attempt, identityVars, transVars, taskVars, castVars,
                   fileVars, editVars>>

NextRescan == ProcessFullLibrary \/ StandardScanAgain

SpecRescan == InitRescan /\ [][NextRescan]_vars

\* C35: a standard scan attempts no item whose id is in processed_log when
\* the scan starts: what an earlier scan on the same instance processed
\* successfully is skipped.
C35_ProcessedSkipped ==
    call_out.fn = "task_process_full_library" =>
        call_out.ret.attempted \cap call_out.ret.logged = {}

-----------------------------------------------------------------------------
\* The refresh of a collection's member list: tasks.
\* _process_single_collection_concurrently for a native collection and
\* task_process_custom_collection for a custom list.  A part is one member
\* TMDb lists: whether its details are available, whether it is in the
\* library, its release date against today ("past": today or earlier,
\* "future", "none": absent) and its status in the stored snapshot ("none":
\* the snapshot does not hold it).  "dropped" says that the member is left
\* out of the list written.

Parts ==
    [details : BOOLEAN, in_library : BOOLEAN, release : {"past", "future", "none"},
     previous : {"none", "missing", "subscribed", "unreleased", "in_library"}]

\* _process_single_collection_concurrently, the status of one part
native_member_status(movie) ==
    IF movie.release = "none" THEN "dropped"
    ELSE IF movie.in_library THEN "in_library"
    ELSE IF movie.release = "future" THEN "unreleased"
    ELSE IF movie.previous = "subscribed" THEN "subscribed"
    ELSE "missing"

\* task_process_custom_collection, the status of one member of a list
custom_member_status(media) ==
    IF ~media.details THEN "dropped"
    ELSE IF media.in_library THEN "in_library"
    ELSE IF media.previous = "subscribed" THEN "subscribed"
    ELSE IF media.release = "future" THEN "unreleased"
    ELSE "missing"

InitRefresh ==
    /\ BaseIdle /\ FilesIdle /\ EditIdle
    /\ call_in \in [kind : {"native", "custom"},
                    parts : UNION {[1..n -> Parts] : n \in 1..2}]
    /\ call_out = [fn |-> NULL, ret |-> <<>>]

\* The refresh of the collection drawn: the statuses of its parts and the
\* health derived from them.
RefreshCollection ==
    /\ call_out.fn = NULL
    /\ LET statuses == [i \in DOMAIN call_in.parts |->
                           IF call_in.kind = "native"
                           THEN native_member_status(
                                    [call_in.parts[i] EXCEPT !.details = TRUE])
                           ELSE custom_member_status(call_in.parts[i])]
       IN call_out' = [fn |-> call_in.kind,
                       ret |-> [statuses |-> statuses,
                                health |-> IF \E i \in DOMAIN statuses :
                                                  statuses[i] = "missing"
                                           THEN "has_missing" ELSE "ok"]]
    /\ UNCHANGED <<call_in, baseVars, fileVars, editVars>>

NextRefresh == RefreshCollection

SpecRefresh == InitRefresh /\ [][NextRefresh]_vars

\* C36: when a collection is refreshed, a member TMDb still lists that was
\* subscribed in the stored snapshot and is not in the library is stored as
\* subscribed again, whatever its release date, in a native collection and
\* in a custom list alike.
C36_SubscribedKept ==
    call_out.fn # NULL =>
        \A i \in DOMAIN call_in.parts :
            LET part == call_in.parts[i]
            IN (part.details /\ part.previous = "subscribed" /\ ~part.in_library)
                  => call_out.ret.statuses[i] = "subscribed"

-----------------------------------------------------------------------------
\* tasks.webhook_processing_task as the list of the calls it makes.  call_in
\* says what the task meets: whether the item details can be fetched, what
\* process_single_item answers ("raised": it does not return), whether the
\* item has a TMDb id and cached metadata, how many custom collections match
\* and at which of them, if any, append_item_to_collection raises.

MaxMatching == 2

WebhookEnv ==
    [details : BOOLEAN, processed : {"True", "False", "raised"}, tmdb_id : BOOLEAN,
     metadata : BOOLEAN, matching : 0..MaxMatching, append_raises : 0..MaxMatching]

RECURSIVE append_steps(_, _)
append_steps(env, n) ==
    IF n > env.matching THEN <<>>
    ELSE IF n = env.append_raises THEN <<[call |-> "append_item_to_collection", to |-> n]>>
    ELSE <<[call |-> "append_item_to_collection", to |-> n]>> \o append_steps(env, n + 1)

webhook_processing_task(env) ==
    LET matching ==
            IF ~env.tmdb_id THEN <<>>
            ELSE <<[call |-> "get_media_metadata_by_tmdb_id", to |-> 0]>> \o
                 (IF ~env.metadata THEN <<>>
                  ELSE <<[call |-> "find_matching_collections", to |-> 0]>>
                           \o append_steps(env, 1))
    IN <<[call |-> "get_emby_item_details", to |-> 0]>> \o
       (IF ~env.details THEN <<>>
        ELSE <<[call |-> "check_and_add_to_watchlist", to |-> 0],
               [call |-> "process_single_item", to |-> 0]>> \o
             (IF env.processed = "True" THEN matching ELSE <<>>))

InitWebhook ==
    /\ BaseIdle /\ FilesIdle /\ EditIdle
    /\ call_in \in WebhookEnv
    /\ call_out = [fn |-> NULL, ret |-> <<>>]

\* The task matching the collections whatever process_single_item answered.
WebhookMatchesAnyway ==
    /\ call_out.fn = NULL
    /\ call_out' = [fn |-> "webhook_processing_task",
                    ret |-> webhook_processing_task([call_in EXCEPT !.processed = "True"])]
    /\ UNCHANGED <<call_in, baseVars, fileVars, editVars>>

WebhookProcessingTask ==
    /\ call_out.fn = NULL
    /\ call_out' = [fn |-> "webhook_processing_task",
                    ret |-> webhook_processing_task(call_in)]
    /\ UNCHANGED <<call_in, baseVars, fileVars, editVars>>

NextWebhook == WebhookProcessingTask

SpecWebhook == InitWebhook /\ [][NextWebhook]_vars

\* C37: the webhook task fetches the details, checks the watchlist,
\* processes the cast and matches the collections, in that order; it
\* appends the item to a collection only after process_single_item returned
\* success, to the matching collections in turn; and when the details
\* cannot be fetched it makes no call after the fetch.
C37_WebhookOrder ==
    call_out.fn = "webhook_processing_task" =>
        LET steps == call_out.ret
            at(c) == {i \in 1..Len(steps) : steps[i].call = c}
            appended == {steps[i].to : i \in at("append_item_to_collection")}
        IN /\ at("get_emby_item_details") = {1}
           /\ ~call_in.details => Len(steps) = 1
           /\ at("check_and_add_to_watchlist") \subseteq {2}
           /\ at("process_single_item") \subseteq {3}
           /\ at("find_matching_collections") \subseteq {5}
           /\ \A i \in at("append_item_to_collection") :
                  /\ call_in.processed = "True"
                  /\ at("process_single_item") = {3} /\ at("find_matching_collections") = {5}
                  /\ i > 5 /\ steps[i].to = i - 5
           /\ (call_in.details /\ call_in.processed = "True" /\ call_in.tmdb_id
                 /\ call_in.metadata /\ call_in.append_raises = 0)
                 => appended = 1..call_in.matching

\* The item was appended to MaxMatching collections after its processing
\* had returned success.
C37_Witness ==
    /\ call_out.fn = "webhook_processing_task"
    /\ call_in.processed = "True"
    /\ Len(call_out.ret) = 5 + MaxMatching
    /\ call_out.ret[Len(call_out.ret)] = [call |-> "append_item_to_collection", to |-> MaxMatching]

-----------------------------------------------------------------------------
\* The de-duplication of the Douban cast: actor_utils.format_douban_cast,
\* which MediaProcessorSA calls, and MediaProcessorAPI._format_douban_cast.
\* The fields of a raw actor are texts; an id that strips to the empty text
\* is None to the code and <<>> here.

MaxRaw == 2

RawDoubanActors ==
    [id : {<<>>, <<"1">>, <<"2">>, <<"1", " ">>},
     name : {<<>>, <<"zh">>, <<"zh", " ">>, <<"A">>, <<"a">>},
     original_name : {<<>>, <<"A">>}]

\* actor_utils.format_douban_cast
format_douban_cast(douban_api_actors_raw) ==
    LET after[i \in 0..Len(douban_api_actors_raw)] ==
            IF i = 0 THEN [formatted_candidates |-> <<>>, seen_douban_ids |-> {},
                           seen_names |-> {}]
            ELSE LET s == after[i - 1]
                     item == douban_api_actors_raw[i]
                     name_zh == StripText(item.name)
                     douban_id == StripText(item.id)
                     candidate == [Name |-> name_zh,
                                   OriginalName |-> StripText(item.original_name),
                                   DoubanCelebrityId |-> douban_id]
                 IN IF name_zh = <<>> THEN s
                    ELSE IF douban_id # <<>> /\ douban_id \in s.seen_douban_ids THEN s
                    ELSE IF name_zh \in s.seen_names THEN s
                    ELSE [formatted_candidates |->
                              Append(s.formatted_candidates, candidate),
                          seen_douban_ids |-> IF douban_id # <<>>
                                              THEN s.seen_douban_ids \cup {douban_id}
                                              ELSE s.seen_douban_ids,
                          seen_names |-> s.seen_names \cup {name_zh}]
    IN after[Len(douban_api_actors_raw)].formatted_candidates

\* MediaProcessorAPI._format_douban_cast
api_format_douban_cast(douban_api_actors_raw) ==
    LET after[i \in 0..Len(douban_api_actors_raw)] ==
            IF i = 0 THEN [formatted_candidates |-> <<>>, seen_douban_ids |-> {},
                           seen_name_sigs |-> {}]
            ELSE LET s == after[i - 1]
                     item == douban_api_actors_raw[i]
                     name_zh == StripText(item.name)
                     douban_id == StripText(item.id)
                     name_sig == <<lower(name_zh), StripText(lower(item.original_name))>>
                     candidate == [Name |-> name_zh,
                                   OriginalName |-> StripText(item.original_name),
                                   DoubanCelebrityId |-> douban_id]
                 IN IF name_zh = <<>> THEN s
                    ELSE IF douban_id # <<>>
                    THEN IF douban_id \in s.seen_douban_ids THEN s
                         ELSE [s EXCEPT !.formatted_candidates =
                                            Append(@, candidate),
                                        !.seen_douban_ids = @ \cup {douban_id}]
                    ELSE IF name_sig \in s.seen_name_sigs THEN s
                    ELSE [s EXCEPT !.formatted_candidates =
                                       Append(@, candidate),
                                   !.seen_name_sigs = @ \cup {name_sig}]
    IN after[Len(douban_api_actors_raw)].formatted_candidates

InitDouban ==
    /\ BaseIdle /\ FilesIdle /\ EditIdle
    /\ call_in \in UNION {[1..n -> RawDoubanActors] : n \in 0..MaxRaw}
    /\ call_out = [fn |-> NULL, ret |-> <<>>]

FormatDoubanCast ==
    /\ call_out.fn = NULL
    /\ call_out' = [fn |-> "format_douban_cast", ret |-> format_douban_cast(call_in)]
    /\ UNCHANGED <<call_in, baseVars, fileVars, editVars>>

ApiFormatDoubanCast ==
    /\ call_out.fn = NULL
    /\ call_out' = [fn |-> "_format_douban_cast", ret |-> api_format_douban_cast(call_in)]
    /\ UNCHANGED <<call_in, baseVars, fileVars, editVars>>

NextDouban == FormatDoubanCast \/ ApiFormatDoubanCast

SpecDouban == InitDouban /\ [][NextDouban]_vars

\* C38: the de-duplicated Douban candidate list of either processor holds no
\* two entries with the same Douban ID and no two entries with the same name.
C38_CandidatesDistinct ==
    call_out.fn # NULL =>
        \A i, j \in 1..Len(call_out.ret) :
            i # j =>
                /\ call_out.ret[i].Name # call_out.ret[j].Name
                /\ call_out.ret[i].DoubanCelebrityId # <<>>
                      => call_out.ret[i].DoubanCelebrityId # call_out.ret[j].DoubanCelebrityId

-----------------------------------------------------------------------------
\* The animation test of the two processors, on the Genres of an item.
\* "donghua" spells U+52A8 U+753B and "dongman" U+52A8 U+6F2B.

Genres == {"Animation", "animation", "donghua", "dongman", "Anime", "Drama"}

\* "Animation" in genres or "donghua" in genres
is_animation(genres) == "Animation" \in genres \/ "donghua" \in genres

InitGenres ==
    /\ BaseIdle /\ FilesIdle /\ EditIdle
    /\ call_in \in SUBSET Genres
    /\ call_out = [fn |-> NULL, ret |-> <<>>]

\* MediaProcessorSA._process_item_core_logic, Genres of the item details
SaIsAnimation ==
    /\ call_out.fn = NULL
    /\ call_out' = [fn |-> "_process_item_core_logic", ret |-> is_animation(call_in)]
    /\ UNCHANGED <<call_in, baseVars, fileVars, editVars>>

\* MediaProcessorAPI._process_cast_list, Genres of media_info
ApiIsAnimation ==
    /\ call_out.fn = NULL
    /\ call_out' = [fn |-> "_process_cast_list", ret |-> is_animation(call_in)]
    /\ UNCHANGED <<call_in, baseVars, fileVars, editVars>>

NextGenres == SaIsAnimation \/ ApiIsAnimation

SpecGenres == InitGenres /\ [][NextGenres]_vars

\* C39: an item is treated as animation exactly when its genres contain
\* "Animation", "donghua" or "dongman".
C39_AnimationGenres ==
    call_out.fn # NULL =>
        (call_out.ret = TRUE) <=> (call_in \cap {"Animation", "donghua", "dongman"} # {})

-----------------------------------------------------------------------------
\* task_import_database, the merge of translation_cache.  The local table
\* is a function from original_text to its row; the backup is the export of
\* such a table, so no two of its rows with a text have the same one, and a
\* row of it may lack its original_text ("").

MaxBackup == 2

Engines == {"manual", "openai", "zhipuai", "gemini", "google", NULL}
CachedTexts == {"t1", "t2"}

\* TRANSLATION_SOURCE_PRIORITY.get(engine, 0), with every engine at 0
no_source_priority(engine) == 0

\* TRANSLATION_SOURCE_PRIORITY.get(engine, 0)
translation_source_priority(engine) ==
    CASE engine = "manual" -> 2
      [] engine \in {"openai", "zhipuai", "gemini"} -> 1
      [] OTHER -> 0

\* The branch of task_import_database for translation_cache in merge mode.
merge_translation_cache(local_cache_data, table_data) ==
    LET rows == {i \in 1..Len(table_data) : table_data[i].original_text # ""}
        inserts == {i \in rows : table_data[i].original_text \notin DOMAIN local_cache_data}
        updates == {i \in rows \ inserts :
                       translation_source_priority(table_data[i].engine_used)
                         > translation_source_priority(
                               local_cache_data[table_data[i].original_text].engine_used)}
        written == inserts \cup updates
        row_of(t) == table_data[CHOOSE i \in written : table_data[i].original_text = t]
    IN [cache |-> [t \in DOMAIN local_cache_data \cup {table_data[i].original_text : i \in written} |->
                      IF \E i \in written : table_data[i].original_text = t
                      THEN [translated_text |-> row_of(t).translated_text,
                            engine_used |-> row_of(t).engine_used]
                      ELSE local_cache_data[t]],
        inserts |-> Cardinality(inserts), updates |-> Cardinality(updates),
        kept |-> Cardinality(rows \ written)]

InitMerge ==
    /\ BaseIdle /\ FilesIdle /\ EditIdle
    /\ \E local \in UNION {[S -> [translated_text : {"x"}, engine_used : Engines]] :
                             S \in SUBSET CachedTexts} :
         \E backup \in UNION {[1..n -> [original_text : CachedTexts \cup {""},
                                        translated_text : {"y"}, engine_used : Engines]] :
                                n \in 0..MaxBackup} :
            /\ \A i, j \in DOMAIN backup :
                   (backup[i].original_text # "" /\ i # j)
                       => backup[i].original_text # backup[j].original_text
            /\ call_in = [local |-> local, backup |-> backup]
    /\ call_out = [fn |-> NULL, ret |-> <<>>]

ImportTranslationCache ==
    /\ call_out.fn = NULL
    /\ call_out' = [fn |-> "task_import_database",
                    ret |-> merge_translation_cache(call_in.local, call_in.backup)]
    /\ UNCHANGED <<call_in, baseVars, fileVars, editVars>>

NextMerge == ImportTranslationCache

SpecMerge == InitMerge /\ [][NextMerge]_vars

\* C40: in a merge-mode import of translation_cache, a text present locally
\* and in the backup takes the backup's entry when the backup's engine ranks
\* strictly higher (manual 2, openai, zhipuai and gemini 1, any other 0) and
\* keeps its local entry unchanged on a tie or a lower rank; a local text
\* the backup does not hold is unchanged.
C40_PriorityMerge ==
    call_out.fn = "task_import_database" =>
        LET rank(engine) == IF engine = "manual" THEN 2
                            ELSE IF engine \in {"openai", "zhipuai", "gemini"} THEN 1 ELSE 0
            after == call_out.ret.cache
        IN \A t \in DOMAIN call_in.local :
              /\ t \in DOMAIN after
              /\ (\A i \in DOMAIN call_in.backup : call_in.backup[i].original_text # t)
                    => after[t] = call_in.local[t]
              /\ \A i \in DOMAIN call_in.backup :
                    call_in.backup[i].original_text = t =>
                        IF rank(call_in.backup[i].engine_used) > rank(call_in.local[t].engine_used)
                        THEN after[t] = [translated_text |-> call_in.backup[i].translated_text,
                                         engine_used |-> call_in.backup[i].engine_used]
                        ELSE after[t] = call_in.local[t]

\* One import replaced an AI entry by a manual one and kept another AI
\* entry against the entry of a different AI engine.
C40_Witness ==
    /\ call_out.fn = "task_import_database"
    /\ call_in.local = [t \in CachedTexts |-> [translated_text |-> "x", engine_used |-> "openai"]]
    /\ call_in.backup = <<[original_text |-> "t1", translated_text |-> "y", engine_used |-> "manual"],
                          [original_text |-> "t2", translated_text |-> "y", engine_used |-> "gemini"]>>
    /\ call_out.ret.cache["t1"].translated_text = "y"
    /\ call_out.ret.cache["t2"] = [translated_text |-> "x", engine_used |-> "openai"]
    /\ call_out.ret.updates = 1 /\ call_out.ret.kept = 1

=============================================================================
